---- MODULE Spec2Model ----
(***************************************************************************)
(* Model of choice_learn/models/base_model.py: the training engine of      *)
(* ChoiceModel (constructor, fit, train_step, batch_predict), its L-BFGS   *)
(* adapter (_lbfgs_train_step, _fit_with_lbfgs) and the fit entry point of *)
(* BaseLatentClassModel.                                                   *)
(*                                                                         *)
(* Conventions.  None is the empty tuple <<>>.  A scalar loss is an        *)
(* integer number of loss units; a quotient computed by the code           *)
(* (tf.reduce_mean, "/ len(choice_dataset)") is kept as the pair           *)
(* <<numerator, denominator>>.  In the gradient loop the parameter tensors  *)
(* of a ChoiceModel are abstracted to the number of writes they have       *)
(* received (weights); the L-BFGS adapter works on the tensors themselves  *)
(* (self_weights).                                                         *)
(***************************************************************************)
EXTENDS Integers, Sequences, FiniteSets, TLC

(* ------------------------------- bounds -------------------------------- *)
MaxEpochs == 2
MaxRows == 3
MaxValRows == 3
MaxFits == 2
MaxTensors == 2
MaxEvals == 3
MaxClasses == 3
MaxCalls == 3

None == <<>>

(* ------------------------------ helpers -------------------------------- *)
RECURSIVE SumSeq(_)
\* tf.reduce_sum of a list of scalars
SumSeq(s) == IF s = <<>> THEN 0 ELSE Head(s) + SumSeq(Tail(s))

\* tf.reduce_mean of a list of scalars, as numerator / denominator
ReduceMean(s) == <<SumSeq(s), Len(s)>>

Min(a, b) == IF a <= b THEN a ELSE b

(* --------------------------- ChoiceModel.__init__ ---------------------- *)
\* The optimizer names a caller passes in this model.
OptimizerNames == {"Adam", "SGD", "Adamax", "lbfgs", "L-BFGS", "xyz_not_implemented"}

\* str.lower() on the names the models are built with
Lower(s) ==
    CASE s = "Adam" -> "adam"
      [] s = "SGD" -> "sgd"
      [] s = "Adamax" -> "adamax"
      [] s = "L-BFGS" -> "l-bfgs"
      [] s = "EM" -> "em"
      [] s = "MLE" -> "mle"
      [] OTHER -> s

\* What an unrecognized name would install if the else branch raised instead.
InitOptimizer_raise(name) ==
    IF Lower(name) = "adam" THEN [optimizer |-> "Adam", fit |-> "fit", error |-> "none"]
    ELSE IF Lower(name) = "sgd" THEN [optimizer |-> "SGD", fit |-> "fit", error |-> "none"]
    ELSE IF Lower(name) = "adamax" THEN [optimizer |-> "Adamax", fit |-> "fit", error |-> "none"]
    ELSE IF Lower(name) = "lbfgs" \/ Lower(name) = "l-bfgs"
         THEN [optimizer |-> "unset", fit |-> "_fit_with_lbfgs", error |-> "none"]
    ELSE [optimizer |-> "unset", fit |-> "fit", error |-> "ValueError"]

\* Lines 66-78: the optimizer object installed and the method bound to .fit
InitOptimizer(name) ==
    IF Lower(name) = "adam" THEN [optimizer |-> "Adam", fit |-> "fit", error |-> "none"]
    ELSE IF Lower(name) = "sgd" THEN [optimizer |-> "SGD", fit |-> "fit", error |-> "none"]
    ELSE IF Lower(name) = "adamax" THEN [optimizer |-> "Adamax", fit |-> "fit", error |-> "none"]
    ELSE IF Lower(name) = "lbfgs" \/ Lower(name) = "l-bfgs"
         THEN [optimizer |-> "unset", fit |-> "_fit_with_lbfgs", error |-> "none"]
    ELSE [optimizer |-> "Adam", fit |-> "fit", error |-> "none"]

(* ------------------------ dataset collaborator ------------------------- *)
\* ChoiceDataset.iter_batch: the batches of one pass over a dataset of n rows,
\* each given by the offset of its first row and its row count; batch_size -1
\* is the whole dataset as one batch, the final batch may be shorter.
IterBatch(n, bs) ==
    IF n = 0 THEN <<>>
    ELSE IF bs = -1 THEN <<[first |-> 0, rows |-> n]>>
    ELSE [i \in 1..((n + bs - 1) \div bs) |->
            [first |-> (i - 1) * bs, rows |-> Min(bs, n - (i - 1) * bs)]]

\* The loss of one batch under the parameters w (self.loss applied to the
\* availability-masked softmax of compute_batch_utility): a function of the
\* parameters and of the batch, at least 0.
BatchLoss(w, b) == 1 + ((w + b.first) % 3)

(* ------------------------------- state --------------------------------- *)
VARIABLES
    optimizer_name,         \* self.optimizer_name
    optimizer,              \* self.optimizer: "Adam", "SGD", "Adamax" or "unset"
    fit_impl,               \* the method bound to self.fit
    instantiated,           \* the subclass attribute: "absent", "False", "True"
    epochs,                 \* self.epochs
    batch_size,             \* self.batch_size
    stop_training,          \* self.stop_training
    weights,                \* self.weights, as the number of writes received
    choice_dataset,         \* len(choice_dataset) of the caller's dataset
    val_dataset,            \* None, or <<len(val_dataset)>>
    sample_weight,          \* None, or one weight per row of choice_dataset
    pc,                     \* position inside fit; "idle" outside a call
    epoch_nb,               \* loop variable of the epoch loop
    batch_nb,               \* loop variable of the running batch loop
    inner_range,            \* batches the running iterator has yet to yield
    available_items_batch,  \* the batch last bound by a batch loop
    weight_batch,           \* sample weights of the batch handed to train_step
    neg_loglikelihood,      \* loss of the running train_step
    grads,                  \* gradients of the running train_step
    train_logs,             \* dict of fit
    val_logs,               \* dict of fit
    epoch_losses,           \* list of fit
    test_losses,            \* list of fit
    losses_history,         \* dict of fit, returned by it
    error,                  \* exception raised by the last call, or "none"
    returned,               \* the histories returned so far, one per call
    fits_done,              \* calls of fit that have ended
    trace,                  \* hooks received by the callbacks in the running call
    stop_reads,             \* values read from self.stop_training in the running call
    self_weights,           \* self.weights as tensors (models fitted with L-BFGS)
    func,                   \* the closure built by _lbfgs_train_step
    init_params,            \* the flat vector built by _fit_with_lbfgs
    params_1d,              \* the flat vectors the minimizer has evaluated, in order
    weights_at_call,        \* self.weights when _fit_with_lbfgs was called
    results,                \* what lbfgs_minimize returned to the last call
    assigns                 \* calls of assign_new_model_parameters in the last call

modelVars == <<optimizer_name, optimizer, fit_impl, instantiated, epochs, batch_size,
               stop_training, weights>>
argVars == <<choice_dataset, val_dataset, sample_weight>>
frameVars == <<pc, epoch_nb, batch_nb, inner_range, available_items_batch, weight_batch,
               neg_loglikelihood, grads, train_logs, val_logs, epoch_losses, test_losses,
               losses_history>>
obsVars == <<error, returned, fits_done, trace, stop_reads>>
lbfgsVars == <<self_weights, func, init_params, params_1d, weights_at_call, results,
              assigns>>

\* A BaseLatentClassModel (lines 715-1308) and the calls made on it
VARIABLES
    lc_model_parameters_arg,\* the model_parameters argument of the constructor
    lc_init_error,          \* exception raised by the constructor, or "none"
    lc_n_latent_classes,    \* self.n_latent_classes
    lc_model_parameters,    \* self.model_parameters
    lc_fit_method,          \* self.fit_method
    lc_optimizer,           \* self.optimizer: a name, or None (the default)
    lc_instantiated,        \* self.instantiated
    lc_epochs,              \* self.epochs
    lc_model_class,         \* self.model_class: what a new sub-model shows as `instantiated`
    lc_models,              \* self.models: None while the attribute is absent
    lc_latent_logits,       \* self.latent_logits: None while the attribute is absent
    lc_minf,                \* self.minf: "absent" or "set"
    lc_log,                 \* the calls made on the mixture, each with its outcome
    lc_dataset,             \* len(dataset) of the dataset the mixture is fitted on
    lc_weights,             \* self.weights: the responsibilities of the last E-step
    em_pc,                  \* position inside _em_fit: "idle", "loop", "m_step"
    em_i,                   \* iterations of the loop of line 1267 begun so far
    em_loss,                \* the local `loss` of _em_fit
    hist_logits,            \* the local hist_logits of _em_fit
    hist_loss,              \* the local hist_loss of _em_fit
    mix_weights,            \* model.weights of every sub-model of self.models
    mix_func,               \* the local func of the mixture's _fit_with_lbfgs
    mix_init_params         \* the local init_params of the mixture's _fit_with_lbfgs

lcCtorVars == <<lc_model_parameters_arg, lc_init_error, lc_n_latent_classes,
                lc_model_parameters, lc_fit_method, lc_optimizer, lc_instantiated,
                lc_epochs, lc_model_class>>
emVars == <<lc_dataset, lc_weights, em_pc, em_i, em_loss, hist_logits, hist_loss>>
mixVars == <<mix_weights, mix_func, mix_init_params>>
lcVars == <<lcCtorVars, lc_models, lc_latent_logits, lc_minf, lc_log, emVars, mixVars>>
\* The folder save_model writes and load_model reads, and the calls made.
VARIABLES
    disk,                   \* the folder at `path`: whether it exists and what it lists
    io_log                  \* the calls of save_model and load_model, each with its outcome

ioVars == <<disk, io_log>>
vars == <<modelVars, argVars, frameVars, obsVars, lbfgsVars, lcVars, ioVars>>

\* no folder at `path`
NoDirectory == [exists |-> FALSE, weights |-> {}, params |-> FALSE]

\* the folder as the caller finds it, before any call of save_model or load_model
InitIo(d) ==
    /\ disk = d
    /\ io_log = <<>>

\* a local name that is not bound yet
UnboundDict == [k \in {} |-> <<>>]
UnboundBatch == [first |-> -1, rows |-> -1]
NoGrads == [w |-> -1, first |-> -1]

\* batch sizes a caller passes: -1 (whole dataset), and 1 .. one more than the rows
BatchSizes == {-1} \cup (1..(MaxRows + 1))

\* one weight per row, all different
RowWeights(n) == [i \in 1..n |-> i]

(* -------------------------------- Init --------------------------------- *)
\* shapes of the parameter tensors: scalars, vectors and matrices, among them
\* the single-element shapes <<>> and <<1>>
Dims == {1, 2}
Shapes == {<<>>} \cup {<<a>> : a \in Dims} \cup {<<a, 2>> : a \in Dims}

RECURSIVE Product(_)
\* np.product(shape); the product of the empty shape is 1
Product(shape) == IF shape = <<>> THEN 1 ELSE Head(shape) * Product(Tail(shape))

\* A tensor is its shape and its elements in row-major order.  Tensor i of a
\* freshly instantiated model holds the values 10*i, 10*i + 1, ...: all the
\* elements of a parameter set are different.
InitialTensor(i, shape) ==
    [shape |-> shape, flat |-> [k \in 1..Product(shape) |-> 10 * i + k - 1]]

\* the parameter sets of a model: 1 .. MaxTensors tensors of any of the shapes
InitialWeights ==
    UNION {{[i \in 1..n |-> InitialTensor(i, sh[i])] : sh \in [1..n -> Shapes]} :
              n \in 1..MaxTensors}

NoFunc == [built |-> FALSE]
NoResults == [set |-> FALSE, position |-> <<>>, converged |-> FALSE]

\* the fit frame, the observations and the adapter before any call
InitRest ==
    /\ stop_training = FALSE
    /\ weights = 0
    /\ pc = "idle"
    /\ epoch_nb = 0
    /\ batch_nb = 0
    /\ inner_range = <<>>
    /\ available_items_batch = UnboundBatch
    /\ weight_batch = None
    /\ neg_loglikelihood = 0
    /\ grads = NoGrads
    /\ train_logs = UnboundDict
    /\ val_logs = UnboundDict
    /\ epoch_losses = <<>>
    /\ test_losses = <<>>
    /\ losses_history = UnboundDict
    /\ returned = <<>>
    /\ fits_done = 0
    /\ trace = <<>>
    /\ stop_reads = <<>>
    /\ func = NoFunc
    /\ init_params = <<>>
    /\ params_1d = <<>>
    /\ weights_at_call = <<>>
    /\ results = NoResults
    /\ assigns = 0

\* an attribute of the mixture: absent until it is assigned
Absent == [set |-> FALSE, value |-> <<>>]
Attr(v) == [set |-> TRUE, value |-> v]

FitMethods == {"EM", "em", "MLE", "mle", "xyz"}
MixtureOptimizers == {"None", "Adam", "lbfgs", "L-BFGS"}

\* The model_parameters argument: one dict of hyper-parameters (dict 0), or a
\* list of dicts (dict 1, dict 2, ...) of any length up to one above the
\* number of classes.
OneDict == [is_list |-> FALSE, items |-> <<0>>]
ModelParametersArgs ==
    {OneDict} \cup {[is_list |-> TRUE, items |-> [i \in 1..k |-> i]] : k \in 0..(MaxClasses + 1)}

\* Lines 754-763 if a list were stored whatever its length.
ModelParameters_nocheck(n, arg) ==
    IF arg.is_list THEN [error |-> "none", value |-> Attr(arg.items)]
    ELSE [error |-> "none", value |-> Attr([i \in 1..n |-> arg.items[1]])]

\* Lines 754-763: a list must have one entry per class and is stored as it
\* is; anything else is replicated, [model_parameters] * n_latent_classes
ModelParameters(n, arg) ==
    IF arg.is_list
    THEN IF Len(arg.items) # n
         THEN [error |-> "ValueError", value |-> Absent]
         ELSE [error |-> "none", value |-> Attr(arg.items)]
    ELSE [error |-> "none", value |-> Attr([i \in 1..n |-> arg.items[1]])]

\* BaseLatentClassModel.__init__, lines 753-774: the arguments are stored,
\* self.instantiated is False and neither self.models nor self.latent_logits
\* exists
InitMixture(n, arg, fit_method, optimizer_arg) ==
    /\ lc_model_parameters_arg = arg
    /\ lc_n_latent_classes = n
    /\ lc_init_error = ModelParameters(n, arg).error
    /\ lc_model_parameters = ModelParameters(n, arg).value
    /\ lc_fit_method = fit_method
    /\ lc_optimizer = optimizer_arg
    /\ lc_instantiated = FALSE
    /\ lc_models = Absent
    /\ lc_latent_logits = Absent
    /\ lc_minf = "absent"
    /\ lc_log = <<>>

\* The values a new sub-model can show as `instantiated`: the attribute is
\* missing (ChoiceModel.__init__, lines 30-82, does not assign it) or False
ModelClasses == {"absent", "False"}

\* The rest of the constructor, lines 753-774, and the state of a mixture on
\* which _em_fit has not been called.
InitEm(epochs_arg, model_class, rows) ==
    /\ lc_epochs = epochs_arg
    /\ lc_model_class = model_class
    /\ lc_dataset = rows
    /\ lc_weights = Absent
    /\ em_pc = "idle"
    /\ em_i = 0
    /\ em_loss = <<>>
    /\ hist_logits = <<>>
    /\ hist_loss = <<>>
    /\ mix_weights = <<>>
    /\ mix_func = NoFunc
    /\ mix_init_params = <<>>

\* A constructed ChoiceModel (lines 52-82) and the arguments its caller will
\* pass to fit; no call is running.  A model built with an L-BFGS name is
\* followed at the level of its tensors, with one fixed dataset.  The
\* gradient loop never looks at which optimizer it holds, so validation
\* datasets are tried with one of them.
Init ==
    /\ optimizer_name \in OptimizerNames
    /\ optimizer = InitOptimizer(optimizer_name).optimizer
    /\ fit_impl = InitOptimizer(optimizer_name).fit
    /\ error = InitOptimizer(optimizer_name).error
    /\ IF fit_impl = "_fit_with_lbfgs"
       THEN /\ instantiated \in {"absent", "True"}
            /\ epochs = MaxEpochs
            /\ batch_size = -1
            /\ choice_dataset = MaxRows
            /\ val_dataset = None
            /\ sample_weight = None
            /\ self_weights \in InitialWeights
       ELSE /\ instantiated \in {"absent", "False", "True"}
            /\ epochs \in 0..MaxEpochs
            /\ batch_size \in BatchSizes
            /\ choice_dataset \in 1..MaxRows
            /\ val_dataset \in IF optimizer_name = "Adam"
                               THEN {None} \cup {<<n>> : n \in 1..MaxValRows}
                               ELSE {None}
            /\ sample_weight \in {None, RowWeights(choice_dataset)}
            /\ self_weights = <<>>
    /\ InitRest
    /\ InitIo(NoDirectory)
    /\ InitMixture(1, OneDict, "MLE", "None")
    /\ InitEm(0, "absent", 1)

(* ------------------------------ callbacks ------------------------------ *)
\* One hook call as the callbacks see it: its name, its index argument and the
\* parameters of the model at that moment.
Ev(h, i) == [h |-> h, i |-> i, w |-> weights]

\* self.callbacks.<hook>(...) for each hook of hs, in order.  The callbacks
\* hold the model (set_model, line 63) and may request a stop by setting
\* model.stop_training, as an early-stopping callback does.
Hooks(hs) ==
    /\ trace' = trace \o hs
    /\ \E req \in BOOLEAN : stop_training' = (stop_training \/ req)

\* dict.get(key, default)
Get(d, k, default) == IF k \in DOMAIN d THEN d[k] ELSE default

(* --------------------------- ChoiceModel.fit --------------------------- *)
\* Lines 212-223: the instantiation guard, the defaults, a new history and
\* on_train_begin.  The guard raises before anything else happens.
FitCall ==
    /\ pc = "idle"
    /\ fits_done < MaxFits
    /\ optimizer # "unset"
    /\ fit_impl = "fit"
    /\ IF instantiated = "False"
       THEN /\ error' = "ValueError"
            /\ fits_done' = fits_done + 1
            /\ trace' = <<>>
            /\ stop_reads' = <<>>
            /\ UNCHANGED <<ioVars, lcVars, lbfgsVars, modelVars, argVars, frameVars, returned>>
       ELSE /\ error' = "none"
            /\ losses_history' = ("train_loss" :> <<>>)
            /\ epoch_nb' = 0
            /\ batch_nb' = 0
            /\ inner_range' = <<>>
            /\ available_items_batch' = UnboundBatch
            /\ weight_batch' = None
            /\ neg_loglikelihood' = 0
            /\ grads' = NoGrads
            /\ train_logs' = UnboundDict
            /\ val_logs' = UnboundDict
            /\ epoch_losses' = <<>>
            /\ test_losses' = <<>>
            /\ stop_reads' = <<>>
            /\ trace' = <<Ev("on_train_begin", 0)>>
            /\ \E req \in BOOLEAN : stop_training' = (stop_training \/ req)
            /\ pc' = "epoch_loop"
            /\ UNCHANGED <<ioVars, lcVars, lbfgsVars, optimizer_name, optimizer, fit_impl, instantiated,
                           epochs, batch_size, weights, argVars, returned, fits_done>>

\* Lines 226-246 (and 275-284): the epoch loop yields the next epoch;
\* on_epoch_begin, the epoch's lists, and the batch iterator of the epoch.
EpochBegin ==
    /\ pc = "epoch_loop"
    /\ epoch_nb < epochs
    /\ Hooks(<<Ev("on_epoch_begin", epoch_nb)>>)
    /\ train_logs' = ("train_loss" :> <<>>)
    /\ val_logs' = ("val_loss" :> <<>>)
    /\ epoch_losses' = <<>>
    /\ inner_range' = IterBatch(choice_dataset, batch_size)
    /\ batch_nb' = 0
    /\ pc' = "batch_loop"
    /\ UNCHANGED <<ioVars, lcVars, lbfgsVars, optimizer_name, optimizer, fit_impl, instantiated, epochs, batch_size,
                   weights, argVars, epoch_nb, available_items_batch, weight_batch,
                   neg_loglikelihood, grads, test_losses, losses_history, error, returned,
                   fits_done, stop_reads>>

\* Line 226: the epoch loop is exhausted.
EpochLoopDone ==
    /\ pc = "epoch_loop"
    /\ epoch_nb >= epochs
    /\ pc' = "train_end"
    /\ UNCHANGED <<ioVars, lcVars, lbfgsVars, modelVars, argVars, epoch_nb, batch_nb, inner_range,
                   available_items_batch, weight_batch, neg_loglikelihood, grads,
                   train_logs, val_logs, epoch_losses, test_losses, losses_history,
                   obsVars>>

\* Lines 248-257 (and 285-291): the batch loop binds the next batch (with its
\* sample weights when sample_weight is given) and fires on_train_batch_begin.
TrainBatchBegin ==
    /\ pc = "batch_loop"
    /\ inner_range # <<>>
    /\ available_items_batch' = Head(inner_range)
    /\ inner_range' = Tail(inner_range)
    /\ weight_batch' = IF sample_weight = None THEN None
                       ELSE SubSeq(sample_weight, Head(inner_range).first + 1,
                                   Head(inner_range).first + Head(inner_range).rows)
    /\ Hooks(<<Ev("on_train_batch_begin", batch_nb)>>)
    /\ pc' = "train_step"
    /\ UNCHANGED <<ioVars, lcVars, lbfgsVars, optimizer_name, optimizer, fit_impl, instantiated, epochs, batch_size,
                   weights, argVars, epoch_nb, batch_nb, neg_loglikelihood, grads,
                   train_logs, val_logs, epoch_losses, test_losses, losses_history,
                   error, returned, fits_done, stop_reads>>

\* train_step, lines 156-175: the forward pass under the gradient tape.
TrainStepForward ==
    /\ pc = "train_step"
    /\ neg_loglikelihood' = BatchLoss(weights, available_items_batch)
    /\ pc' = "gradient"
    /\ UNCHANGED <<ioVars, lcVars, lbfgsVars, modelVars, argVars, epoch_nb, batch_nb, inner_range,
                   available_items_batch, weight_batch, grads, train_logs, val_logs,
                   epoch_losses, test_losses, losses_history, obsVars>>

\* train_step, line 177: the gradients of that loss at the current parameters.
TrainStepGradient ==
    /\ pc = "gradient"
    /\ grads' = [w |-> weights, first |-> available_items_batch.first]
    /\ pc' = "apply"
    /\ UNCHANGED <<ioVars, lcVars, lbfgsVars, modelVars, argVars, epoch_nb, batch_nb, inner_range,
                   available_items_batch, weight_batch, neg_loglikelihood, train_logs,
                   val_logs, epoch_losses, test_losses, losses_history, obsVars>>

\* train_step if the gradients were computed and never applied.
TrainStepApply_none ==
    /\ pc = "apply"
    /\ pc' = "batch_end"
    /\ UNCHANGED <<ioVars, lcVars, lbfgsVars, modelVars, argVars, epoch_nb, batch_nb, inner_range,
                   available_items_batch, weight_batch, neg_loglikelihood, grads,
                   train_logs, val_logs, epoch_losses, test_losses, losses_history,
                   obsVars>>

\* train_step, lines 178-179: one optimizer step writes the parameters.
TrainStepApply ==
    /\ pc = "apply"
    /\ weights' = weights + 1
    /\ pc' = "batch_end"
    /\ UNCHANGED <<ioVars, lcVars, lbfgsVars, optimizer_name, optimizer, fit_impl, instantiated, epochs, batch_size,
                   stop_training, argVars, epoch_nb, batch_nb, inner_range,
                   available_items_batch, weight_batch, neg_loglikelihood, grads,
                   train_logs, val_logs, epoch_losses, test_losses, losses_history,
                   obsVars>>

\* The batch loop if it were left as soon as the stop flag is found set.
TrainBatchEnd_break ==
    /\ pc = "batch_end"
    /\ train_logs' = [train_logs EXCEPT !["train_loss"] = Append(@, neg_loglikelihood)]
    /\ Hooks(<<Ev("on_train_batch_end", batch_nb)>>)
    /\ epoch_losses' = Append(epoch_losses, neg_loglikelihood)
    /\ batch_nb' = batch_nb + 1
    /\ inner_range' = IF stop_training THEN <<>> ELSE inner_range
    /\ pc' = "batch_loop"
    /\ UNCHANGED <<ioVars, lcVars, lbfgsVars, optimizer_name, optimizer, fit_impl, instantiated, epochs, batch_size,
                   weights, argVars, epoch_nb, available_items_batch,
                   weight_batch, neg_loglikelihood, grads, val_logs, test_losses,
                   losses_history, error, returned, fits_done, stop_reads>>

\* Lines 267-272 (and 298-303): the batch loss is logged, on_train_batch_end
\* fires, the loss joins the epoch's losses.
TrainBatchEnd ==
    /\ pc = "batch_end"
    /\ train_logs' = [train_logs EXCEPT !["train_loss"] = Append(@, neg_loglikelihood)]
    /\ Hooks(<<Ev("on_train_batch_end", batch_nb)>>)
    /\ epoch_losses' = Append(epoch_losses, neg_loglikelihood)
    /\ batch_nb' = batch_nb + 1
    /\ pc' = "batch_loop"
    /\ UNCHANGED <<ioVars, lcVars, lbfgsVars, optimizer_name, optimizer, fit_impl, instantiated, epochs, batch_size,
                   weights, argVars, epoch_nb, inner_range, available_items_batch,
                   weight_batch, neg_loglikelihood, grads, val_logs, test_losses,
                   losses_history, error, returned, fits_done, stop_reads>>

\* tf.multiply of two lists of equal length
Multiply(a, b) == [i \in 1..Len(a) |-> a[i] * b[i]]

\* The weights if the last batch were counted as a full one.
Coefficients_full(k, bs, last_batch_size) == [i \in 1..k |-> bs]

\* Lines 309-311: tf.concat([tf.ones(k - 1) * batch_size, [last_batch_size]])
Coefficients(k, bs, last_batch_size) ==
    [i \in 1..k |-> IF i < k THEN bs ELSE last_batch_size]

\* Lines 307-315: the loss of an epoch from its batch losses
EpochLoss(losses, bs, last_batch_size, n) ==
    IF bs # -1
    THEN <<SumSeq(Multiply(losses, Coefficients(Len(losses), bs, last_batch_size))), n>>
    ELSE ReduceMean(losses)

(* -------------------------- ChoiceModel.evaluate ------------------------ *)
\* The loop of lines 537-549: what batch_predict is given for every batch of
\* choice_dataset.iter_batch(batch_size=batch_size).  sample_weight is the
\* argument of evaluate, passed as it is.
EvaluateBatches(n, sw, bs) ==
    [i \in 1..Len(IterBatch(n, bs)) |->
        [batch |-> IterBatch(n, bs)[i], sample_weight |-> sw]]

\* evaluate, lines 520-564, in mode "optim", on a model whose parameters have
\* been updated w times: the batch losses, weighted by the batch sizes when
\* batch_size is not -1.
Evaluate(n, sw, bs, w) ==
    LET calls == EvaluateBatches(n, sw, bs)
        batch_losses == [i \in 1..Len(calls) |-> BatchLoss(w, calls[i].batch)]
        last_batch_size == calls[Len(calls)].batch.rows
    IN  IF bs # -1
        THEN <<SumSeq(Multiply(batch_losses,
                               Coefficients(Len(batch_losses), bs, last_batch_size))), n>>
        ELSE ReduceMean(batch_losses)

\* The history if each epoch's loss replaced the list.
AppendEpochLoss_replace(h, epoch_loss) == [h EXCEPT !["train_loss"] = <<epoch_loss>>]

\* Line 316: losses_history["train_loss"].append(epoch_loss)
AppendEpochLoss(h, epoch_loss) == [h EXCEPT !["train_loss"] = Append(@, epoch_loss)]

\* Lines 305-334: after the last training batch the epoch loss joins the
\* history; with a validation dataset its batch iterator is opened.
EpochLossStep ==
    /\ pc = "batch_loop"
    /\ inner_range = <<>>
    /\ losses_history' =
          AppendEpochLoss(losses_history,
                          EpochLoss(epoch_losses, batch_size, available_items_batch.rows,
                                    choice_dataset))
    /\ IF val_dataset # None
       THEN /\ test_losses' = <<>>
            /\ inner_range' = IterBatch(val_dataset[1], batch_size)
            /\ batch_nb' = 0
            /\ pc' = "val_loop"
       ELSE /\ pc' = "epoch_end"
            /\ UNCHANGED <<test_losses, inner_range, batch_nb>>
    /\ UNCHANGED <<ioVars, lcVars, lbfgsVars, modelVars, argVars, epoch_nb, available_items_batch, weight_batch,
                   neg_loglikelihood, grads, train_logs, val_logs, epoch_losses, obsVars>>

\* Lines 329-336: the validation loop binds the next batch and fires
\* on_batch_begin and on_test_batch_begin.
ValBatchBegin ==
    /\ pc = "val_loop"
    /\ inner_range # <<>>
    /\ available_items_batch' = Head(inner_range)
    /\ inner_range' = Tail(inner_range)
    /\ Hooks(<<Ev("on_batch_begin", batch_nb), Ev("on_test_batch_begin", batch_nb)>>)
    /\ pc' = "val_predict"
    /\ UNCHANGED <<ioVars, lcVars, lbfgsVars, optimizer_name, optimizer, fit_impl, instantiated, epochs, batch_size,
                   weights, argVars, epoch_nb, batch_nb, weight_batch, neg_loglikelihood,
                   grads, train_logs, val_logs, epoch_losses, test_losses, losses_history,
                   error, returned, fits_done, stop_reads>>

\* Lines 337-347 with batch_predict (lines 408-436): the optimized loss of the
\* batch, computed without a gradient step, is logged; on_test_batch_end fires.
ValBatchPredict ==
    /\ pc = "val_predict"
    /\ test_losses' = Append(test_losses, BatchLoss(weights, available_items_batch))
    /\ val_logs' = [val_logs EXCEPT !["val_loss"] =
                       Append(@, BatchLoss(weights, available_items_batch))]
    /\ Hooks(<<Ev("on_test_batch_end", batch_nb)>>)
    /\ batch_nb' = batch_nb + 1
    /\ pc' = "val_loop"
    /\ UNCHANGED <<ioVars, lcVars, lbfgsVars, optimizer_name, optimizer, fit_impl, instantiated, epochs, batch_size,
                   weights, argVars, epoch_nb, inner_range, available_items_batch,
                   weight_batch, neg_loglikelihood, grads, train_logs, epoch_losses,
                   losses_history, error, returned, fits_done, stop_reads>>

\* The history entry if each epoch's validation loss replaced the list.
TestLossEntry_overwrite(h, test_loss) == <<test_loss>>

\* Lines 353-355: losses_history.get("test_loss", []) + [test_loss]
TestLossEntry(h, test_loss) == Get(h, "test_loss", <<>>) \o <<test_loss>>

\* Lines 349-356: after the last validation batch the mean of the batch
\* losses joins the history and the validation logs join the epoch's logs.
ValEnd ==
    /\ pc = "val_loop"
    /\ inner_range = <<>>
    /\ losses_history' =
          ("test_loss" :> TestLossEntry(losses_history, ReduceMean(test_losses)))
              @@ losses_history
    /\ train_logs' = val_logs @@ train_logs
    /\ pc' = "epoch_end"
    /\ UNCHANGED <<ioVars, lcVars, lbfgsVars, modelVars, argVars, epoch_nb, batch_nb, inner_range,
                   available_items_batch, weight_batch, neg_loglikelihood, grads,
                   val_logs, epoch_losses, test_losses, obsVars>>

\* Lines 358-359: on_epoch_end.
EpochEnd ==
    /\ pc = "epoch_end"
    /\ Hooks(<<Ev("on_epoch_end", epoch_nb)>>)
    /\ pc' = "check_stop"
    /\ UNCHANGED <<ioVars, lcVars, lbfgsVars, optimizer_name, optimizer, fit_impl, instantiated, epochs, batch_size,
                   weights, argVars, epoch_nb, batch_nb, inner_range,
                   available_items_batch, weight_batch, neg_loglikelihood, grads,
                   train_logs, val_logs, epoch_losses, test_losses, losses_history,
                   error, returned, fits_done, stop_reads>>

\* The stop check if it returned the history at once instead of leaving the loop.
CheckStop_return ==
    /\ pc = "check_stop"
    /\ stop_reads' = Append(stop_reads, stop_training)
    /\ IF stop_training
       THEN /\ pc' = "idle"
            /\ fits_done' = fits_done + 1
            /\ returned' = Append(returned, losses_history)
            /\ UNCHANGED epoch_nb
       ELSE /\ pc' = "epoch_loop"
            /\ epoch_nb' = epoch_nb + 1
            /\ UNCHANGED <<fits_done, returned>>
    /\ UNCHANGED <<ioVars, lcVars, lbfgsVars, modelVars, argVars, batch_nb, inner_range, available_items_batch,
                   weight_batch, neg_loglikelihood, grads, train_logs, val_logs,
                   epoch_losses, test_losses, losses_history, error, trace>>

\* Lines 360-365: the stop flag is read; when set the epoch loop is left.
CheckStop ==
    /\ pc = "check_stop"
    /\ stop_reads' = Append(stop_reads, stop_training)
    /\ IF stop_training
       THEN pc' = "train_end" /\ UNCHANGED epoch_nb
       ELSE pc' = "epoch_loop" /\ epoch_nb' = epoch_nb + 1
    /\ UNCHANGED <<ioVars, lcVars, lbfgsVars, modelVars, argVars, batch_nb, inner_range, available_items_batch,
                   weight_batch, neg_loglikelihood, grads, train_logs, val_logs,
                   epoch_losses, test_losses, losses_history, error, returned, fits_done,
                   trace>>

\* Lines 367-369: the last logs are read (train_logs is bound by the first
\* epoch only), on_train_end fires and the history is returned.
TrainEnd ==
    /\ pc = "train_end"
    /\ pc' = "idle"
    /\ fits_done' = fits_done + 1
    /\ IF DOMAIN train_logs = {}
       THEN /\ error' = "UnboundLocalError"
            /\ UNCHANGED <<trace, stop_training, returned>>
       ELSE /\ Hooks(<<Ev("on_train_end", 0)>>)
            /\ returned' = Append(returned, losses_history)
            /\ UNCHANGED error
    /\ UNCHANGED <<ioVars, lcVars, lbfgsVars, optimizer_name, optimizer, fit_impl, instantiated, epochs, batch_size,
                   weights, argVars, epoch_nb, batch_nb, inner_range,
                   available_items_batch, weight_batch, neg_loglikelihood, grads,
                   train_logs, val_logs, epoch_losses, test_losses, losses_history,
                   stop_reads>>

\* instantiate() of a ChoiceModel subclass that exposes the attribute: the
\* parameters are created and the attribute is set.
Instantiate ==
    /\ pc = "idle"
    /\ instantiated = "False"
    /\ instantiated' = "True"
    /\ UNCHANGED <<ioVars, lcVars, lbfgsVars, optimizer_name, optimizer, fit_impl, epochs, batch_size, stop_training,
                   weights, argVars, frameVars, obsVars>>

(* ------------------------- the L-BFGS adapter -------------------------- *)
\* tf.range(a, b)
Range(a, b) == [i \in 1..(b - a) |-> a + i - 1]

\* tf.reshape: the same elements, in row-major order, under a new shape
Reshape(flat, shape) == [shape |-> shape, flat |-> flat]

RECURSIVE StitchLoop_nocount(_, _, _, _, _)
\* The loop if count were not advanced past a tensor.
StitchLoop_nocount(shapes, i, count, idx, part) ==
    IF i > Len(shapes)
    THEN [idx |-> idx, part |-> part, count |-> count]
    ELSE LET n == Product(shapes[i])
         IN  StitchLoop_nocount(shapes, i + 1, count,
                                Append(idx, Reshape(Range(count, count + n), shapes[i])),
                                part \o [k \in 1..n |-> i - 1])

RECURSIVE StitchLoop(_, _, _, _, _)
\* Lines 588-596: the loop over the shapes, from tensor i (1-based here) on,
\* building the stitch indices idx, the partition indices part and count.
StitchLoop(shapes, i, count, idx, part) ==
    IF i > Len(shapes)
    THEN [idx |-> idx, part |-> part, count |-> count]
    ELSE LET n == Product(shapes[i])
         IN  StitchLoop(shapes, i + 1, count + n,
                        Append(idx, Reshape(Range(count, count + n), shapes[i])),
                        part \o [k \in 1..n |-> i - 1])

\* _lbfgs_train_step, lines 583-598 and 654-660: the closure f with its members
LbfgsTrainStep(ws) ==
    LET shapes == [i \in 1..Len(ws) |-> ws[i].shape]
        r == StitchLoop(shapes, 1, 0, <<>>, <<>>)
    IN  [built |-> TRUE, shapes |-> shapes, n_tensors |-> Len(shapes), idx |-> r.idx,
         part |-> r.part, count |-> r.count, iter |-> 0, history |-> <<>>,
         loss_value |-> <<>>, grads |-> <<>>]

\* tf.dynamic_stitch(indices, data): merged[indices[m][k]] = data[m][k], a later
\* (m, k) overriding an earlier one; a position no index names holds 0
DynamicStitch(indices, data) ==
    LET pairs == UNION {{<<m, k>> : k \in 1..Len(indices[m].flat)} :
                           m \in 1..Len(indices)}
        size == IF pairs = {} THEN 0
                ELSE 1 + (CHOOSE x \in {indices[pr[1]].flat[pr[2]] : pr \in pairs} :
                             \A pr \in pairs : indices[pr[1]].flat[pr[2]] <= x)
    IN  [p \in 1..size |->
            LET hits == {pr \in pairs : indices[pr[1]].flat[pr[2]] = p - 1}
            IN  IF hits = {} THEN 0
                ELSE LET last == CHOOSE pr \in hits :
                                    \A q \in hits :
                                       \/ q[1] < pr[1]
                                       \/ (q[1] = pr[1] /\ q[2] <= pr[2])
                     IN  data[last[1]].flat[last[2]]]

RECURSIVE SelectPart(_, _, _)
\* the elements of data whose partition index is v, in order
SelectPart(data, partitions, v) ==
    IF data = <<>> THEN <<>>
    ELSE IF Head(partitions) = v
         THEN <<Head(data)>> \o SelectPart(Tail(data), Tail(partitions), v)
         ELSE SelectPart(Tail(data), Tail(partitions), v)

\* tf.dynamic_partition(data, partitions, num_partitions)
DynamicPartition(data, partitions, num) ==
    [i \in 1..num |-> SelectPart(data, partitions, i - 1)]

\* assign_new_model_parameters, lines 609-611: the tensors of the model after
\* the flat vector p1d is assigned into them
AssignNewModelParameters(f, p1d) ==
    LET params == DynamicPartition(p1d, f.part, f.n_tensors)
    IN  [i \in 1..f.n_tensors |-> Reshape(params[i], f.shapes[i])]

\* evaluate(dataset, batch_size=-1, mode="optim") under the parameters ws: the
\* mean over the single batch of its optimized loss, a function of the
\* parameters (a constant when the model has no element)
EvaluateOptim(ws) ==
    ReduceMean(<<SumSeq([i \in 1..Len(ws) |-> SumSeq(ws[i].flat)]) % 5>>)

\* The position the minimizer tries after p.
NextPosition(p) == [i \in 1..Len(p) |-> p[i] + i]

\* _fit_with_lbfgs, lines 687-692: the closure is built and the parameters are
\* flattened into the initial position.  There is no instantiation guard.
LbfgsFitCall ==
    /\ pc = "idle"
    /\ fits_done < MaxFits
    /\ fit_impl = "_fit_with_lbfgs"
    /\ func' = LbfgsTrainStep(self_weights)
    /\ init_params' = DynamicStitch(func'.idx, self_weights)
    /\ params_1d' = <<>>
    /\ weights_at_call' = self_weights
    /\ assigns' = 0
    /\ error' = "none"
    /\ trace' = <<>>
    /\ stop_reads' = <<>>
    /\ pc' = "lbfgs_minimize"
    /\ UNCHANGED <<ioVars, lcVars, modelVars, argVars, epoch_nb, batch_nb, inner_range,
                   available_items_batch, weight_batch, neg_loglikelihood, grads,
                   train_logs, val_logs, epoch_losses, test_losses, losses_history,
                   returned, fits_done, self_weights, results>>

\* tape.gradient(loss_value, self.weights), line 645: one tensor per weight,
\* of the weight's shape, a function of the weights the loss was computed on
Gradient(ws) ==
    [i \in 1..Len(ws) |->
        [shape |-> ws[i].shape, flat |-> [j \in 1..Len(ws[i].flat) |-> 2 * ws[i].flat[j]]]]

\* A call of f in which the loss is computed before the parameters are
\* assigned.
LbfgsEval_evalfirst ==
    /\ pc = "lbfgs_minimize"
    /\ func.iter < MaxEvals
    /\ LET x == IF func.iter = 0 THEN init_params
                ELSE NextPosition(params_1d[Len(params_1d)])
           ws == AssignNewModelParameters(func, x)
           loss_value == EvaluateOptim(self_weights)
       IN  /\ self_weights' = ws
           /\ params_1d' = Append(params_1d, x)
           /\ func' = [func EXCEPT !.iter = @ + 1,
                                   !.history = Append(@, loss_value),
                                   !.loss_value = loss_value,
                                   !.grads = DynamicStitch(func.idx, Gradient(self_weights))]
    /\ weights' = weights + 1
    /\ assigns' = assigns + 1
    /\ UNCHANGED <<ioVars, lcVars, optimizer_name, optimizer, fit_impl, instantiated, epochs, batch_size,
                   stop_training, argVars, frameVars, obsVars, init_params,
                   weights_at_call, results>>

\* One call of f(params_1d) by the minimizer, lines 630-656, first at the
\* initial position, then at the positions the minimizer tries: the parameters
\* are assigned, the loss of the whole dataset is evaluated in mode "optim",
\* its gradient is stitched into a flat vector, f.iter is incremented and the
\* loss is appended to f.history; (loss_value, grads) is returned.
LbfgsEval ==
    /\ pc = "lbfgs_minimize"
    /\ func.iter < MaxEvals
    /\ LET x == IF func.iter = 0 THEN init_params
                ELSE NextPosition(params_1d[Len(params_1d)])
           ws == AssignNewModelParameters(func, x)
           loss_value == EvaluateOptim(ws)
       IN  /\ self_weights' = ws
           /\ params_1d' = Append(params_1d, x)
           /\ func' = [func EXCEPT !.iter = @ + 1,
                                   !.history = Append(@, loss_value),
                                   !.loss_value = loss_value,
                                   !.grads = DynamicStitch(func.idx, Gradient(ws))]
    /\ weights' = weights + 1
    /\ assigns' = assigns + 1
    /\ UNCHANGED <<ioVars, lcVars, optimizer_name, optimizer, fit_impl, instantiated, epochs, batch_size,
                   stop_training, argVars, frameVars, obsVars, init_params,
                   weights_at_call, results>>

\* lbfgs_minimize returns, lines 695-702: its position is one of the last two
\* vectors it evaluated; it converged unless its budget is exhausted.
MinimizerResults ==
    {[set |-> TRUE, position |-> params_1d[j], converged |-> func.iter < MaxEvals] :
        j \in {Len(params_1d) - 1, Len(params_1d)} \ {0}}

\* _fit_with_lbfgs if results.position were not put back into the model.
LbfgsFinish_noassign ==
    /\ pc = "lbfgs_minimize"
    /\ func.iter >= 1
    /\ results' \in MinimizerResults
    /\ returned' = Append(returned, func.history)
    /\ fits_done' = fits_done + 1
    /\ pc' = "idle"
    /\ UNCHANGED <<ioVars, lcVars, modelVars, argVars, epoch_nb, batch_nb, inner_range,
                   available_items_batch, weight_batch, neg_loglikelihood, grads,
                   train_logs, val_logs, epoch_losses, test_losses, losses_history,
                   error, trace, stop_reads, func, init_params, params_1d,
                   weights_at_call, self_weights, assigns>>

\* _fit_with_lbfgs, lines 695-712: the minimizer stops; its position is
\* assigned into the model and the history is returned.
LbfgsFinish ==
    /\ pc = "lbfgs_minimize"
    /\ func.iter >= 1
    /\ results' \in MinimizerResults
    /\ self_weights' = AssignNewModelParameters(func, results'.position)
    /\ assigns' = assigns + 1
    /\ weights' = weights + 1
    /\ returned' = Append(returned, func.history)
    /\ fits_done' = fits_done + 1
    /\ pc' = "idle"
    /\ UNCHANGED <<ioVars, lcVars, optimizer_name, optimizer, fit_impl, instantiated, epochs, batch_size,
                   stop_training, argVars, epoch_nb, batch_nb, inner_range,
                   available_items_batch, weight_batch, neg_loglikelihood, grads,
                   train_logs, val_logs, epoch_losses, test_losses, losses_history,
                   error, trace, stop_reads, func, init_params, params_1d,
                   weights_at_call>>


Next ==
    \/ FitCall
    \/ EpochBegin
    \/ EpochLoopDone
    \/ TrainBatchBegin
    \/ TrainStepForward
    \/ TrainStepGradient
    \/ TrainStepApply
    \/ TrainBatchEnd
    \/ EpochLossStep
    \/ ValBatchBegin
    \/ ValBatchPredict
    \/ ValEnd
    \/ EpochEnd
    \/ CheckStop
    \/ TrainEnd
    \/ Instantiate
    \/ LbfgsFitCall
    \/ LbfgsEval
    \/ LbfgsFinish

Spec == Init /\ [][Next]_vars

(* ======================== BaseLatentClassModel ========================= *)
\* A constructed mixture on which instantiate and fit will be called, beside
\* one idle ChoiceModel.
InitLC ==
    /\ optimizer_name = "Adam"
    /\ optimizer = InitOptimizer(optimizer_name).optimizer
    /\ fit_impl = InitOptimizer(optimizer_name).fit
    /\ error = InitOptimizer(optimizer_name).error
    /\ instantiated = "True"
    /\ epochs = 0
    /\ batch_size = -1
    /\ choice_dataset = 1
    /\ val_dataset = None
    /\ sample_weight = None
    /\ self_weights = <<>>
    /\ InitRest
    /\ InitIo(NoDirectory)
    /\ \E n \in 1..MaxClasses, arg \in ModelParametersArgs, fit_method \in FitMethods,
          optimizer_arg \in MixtureOptimizers :
          InitMixture(n, arg, fit_method, optimizer_arg)
    /\ InitEm(0, "absent", 1)

\* model_class(**mp) followed by model.instantiate(**kwargs): a sub-model
SubModel(mp) == [params |-> mp, instantiated |-> "True", fits |-> 0]

\* model.weights of sub-model i after model.instantiate(**kwargs), line 785:
\* the tensors its hyper-parameters mp call for, with values that tell every
\* entry of every sub-model apart.  Values are written in thousandths, the
\* size of one step of the default optimizer (lr = 0.001, line 25).
ModelWeights(mp, i) ==
    LET shapes == IF mp = 0 THEN <<<<2>>, <<>>>>
                  ELSE IF mp % 2 = 1 THEN <<<<1, 2>>>>
                  ELSE <<<<2>>, <<1>>>>
    IN  [j \in 1..Len(shapes) |->
            [shape |-> shapes[j],
             flat |-> [k \in 1..Product(shapes[j]) |-> 1000 * (100 * i + 10 * j + k)]]]

\* tf.random_normal_initializer(0.0, 0.02, seed=42)(shape=(n - 1,)), line 779:
\* small values of either sign, here in units of their size
InitLogit(n) == [i \in 1..(n - 1) |-> IF i % 2 = 1 THEN 1 ELSE -1]

\* BaseLatentClassModel.instantiate, lines 776-785: the logits and the
\* sub-models are created; self.instantiated is not assigned.
LCInstantiate ==
    /\ lc_init_error = "none"
    /\ Len(lc_log) < MaxCalls
    /\ lc_latent_logits' = Attr(InitLogit(lc_n_latent_classes))
    /\ lc_models' = Attr([i \in 1..Len(lc_model_parameters.value) |->
                             SubModel(lc_model_parameters.value[i])])
    /\ mix_weights' = [i \in 1..Len(lc_model_parameters.value) |->
                          ModelWeights(lc_model_parameters.value[i], i)]
    /\ lc_log' = Append(lc_log, [op |-> "instantiate", error |-> "none", result |-> <<>>])
    /\ em_pc = "idle"
    /\ UNCHANGED <<ioVars, modelVars, argVars, frameVars, obsVars, lbfgsVars, mix_func,
                   mix_init_params, lcCtorVars, lc_minf, emVars>>

(* ------------------------- mixture batch_predict ----------------------- *)
\* the attributes BaseLatentClassModel.__init__ assigns, lines 753-774
MixtureAttributes ==
    {"n_latent_classes", "model_parameters", "model_class", "fit_method", "epochs",
     "add_exit_choice", "tolerance", "optimizer", "lr", "loss", "instantiated"}

\* tf.math.exp of a logit, in halves: exp(-1), exp(0), exp(1) as 1, 2, 4
Exp(l) == 2 ^ (l + 1)

\* Lines 831-834 without the anchor of the first class.
LatentProbabilities_noanchor(logits) ==
    LET e == [i \in 1..Len(logits) |-> Exp(logits[i])]
    IN  [i \in 1..Len(e) |-> <<e[i], SumSeq(e)>>]

\* Lines 831-834: tf.concat([[1.0], exp(latent_logits)]) divided by its sum;
\* each probability is kept as <<numerator, denominator>>
LatentProbabilities(logits) ==
    LET e == <<Exp(0)>> \o [i \in 1..Len(logits) |-> Exp(logits[i])]
    IN  [i \in 1..Len(e) |-> <<e[i], SumSeq(e)>>]

\* compute_batch_utility, lines 898-908: the utilities of each sub-model, in
\* order; the tensor of sub-model c is written [class |-> c]
ComputeBatchUtility(models) == [c \in 1..Len(models) |-> [class |-> c]]

\* Lines 838-844, iteration i of the loop (1-based here): the softmax is taken
\* of `utilities`, the whole list, and scaled by the prior of class i
ClassProbabilities(utilities, i, latent_probabilities) ==
    [softmax_of |-> utilities, prior |-> latent_probabilities[i]]

\* batch_predict, lines 824-862: [error, probabilities], the probabilities as
\* the terms that line 846 sums.  Line 841 reads self.normalize_non_buy.
BatchPredict(models, latent_logits) ==
    IF ~models.set \/ ~latent_logits.set
    THEN [error |-> "AttributeError", probabilities |-> <<>>]
    ELSE LET utilities == ComputeBatchUtility(models.value)
             latent_probabilities == LatentProbabilities(latent_logits.value)
         IN  IF utilities # <<>> /\ "normalize_non_buy" \notin MixtureAttributes
             THEN [error |-> "AttributeError", probabilities |-> <<>>]
             ELSE [error |-> "none",
                   probabilities |->
                      [i \in 1..Len(utilities) |->
                          ClassProbabilities(utilities, i, latent_probabilities)]]

\* A call of batch_predict on the mixture.
LCBatchPredict ==
    /\ lc_init_error = "none"
    /\ Len(lc_log) < MaxCalls
    /\ LET r == BatchPredict(lc_models, lc_latent_logits)
       IN  lc_log' = Append(lc_log, [op |-> "batch_predict", error |-> r.error,
                                      result |-> r.probabilities])
    /\ em_pc = "idle"
    /\ UNCHANGED <<ioVars, modelVars, argVars, frameVars, obsVars, lbfgsVars, mixVars,
                   lcCtorVars, lc_models,
                   lc_latent_logits, lc_minf, emVars>>

(* ----------------------- the mixture's L-BFGS fit ---------------------- *)
\* self.latent_logits as the tensor of shape (n - 1,) it is
LogitsTensor(latent_logits) == [shape |-> <<Len(latent_logits)>>, flat |-> latent_logits]

\* The loops of lines 1006-1010 from sub-model i on: every weight of every
\* sub-model with the position of the sub-model (w_to_model) and of the weight
\* in it (w_to_model_indexes), both counted from 0.
RECURSIVE MixEnumerate(_, _)
MixEnumerate(mw, i) ==
    IF i > Len(mw) THEN <<>>
    ELSE [j \in 1..Len(mw[i]) |-> [w |-> mw[i][j], model |-> i - 1, index |-> j - 1]]
            \o MixEnumerate(mw, i + 1)

\* The mixture's _lbfgs_train_step up to the definition of f, lines 1003-1031
\* and 1089-1095: the sub-models' weights, then self.latent_logits marked -1.
MixLbfgsTrainStep(mw, latent_logits) ==
    LET e == Append(MixEnumerate(mw, 1),
                    [w |-> LogitsTensor(latent_logits), model |-> -1, index |-> -1])
        shapes == [k \in 1..Len(e) |-> e[k].w.shape]
        r == StitchLoop(shapes, 1, 0, <<>>, <<>>)
    IN  [built |-> TRUE, shapes |-> shapes, n_tensors |-> Len(shapes), idx |-> r.idx,
         part |-> r.part, count |-> r.count, iter |-> 0, history |-> <<>>,
         w_to_model |-> [k \in 1..Len(e) |-> e[k].model],
         w_to_model_indexes |-> [k \in 1..Len(e) |-> e[k].index]]

\* The list `init` built from the last sub-model to the first.
RECURSIVE MixInit_reversed(_, _)
MixInit_reversed(mw, latent_logits) ==
    IF mw = <<>> THEN <<LogitsTensor(latent_logits)>>
    ELSE mw[Len(mw)] \o MixInit_reversed(SubSeq(mw, 1, Len(mw) - 1), latent_logits)

\* The list `init` of the mixture's _fit_with_lbfgs, lines 1127-1131: the
\* weights of every sub-model in turn, then self.latent_logits.
RECURSIVE MixInit(_, _)
MixInit(mw, latent_logits) ==
    IF mw = <<>> THEN <<LogitsTensor(latent_logits)>>
    ELSE Head(mw) \o MixInit(Tail(mw), latent_logits)

\* assign_new_model_parameters of the mixture, lines 1040-1048: part i of the
\* flat vector goes to weight w_to_model_indexes[i] of sub-model w_to_model[i],
\* or to self.latent_logits when w_to_model[i] is -1.  The result is the
\* sub-models' weights and the logits after the loop.
MixAssignNewModelParameters(f, p1d, mw, latent_logits) ==
    LET params == DynamicPartition(p1d, f.part, f.n_tensors)
        hits(a, b) == {i \in 1..f.n_tensors :
                          f.w_to_model[i] = a /\ f.w_to_model_indexes[i] = b}
        last(a, b) == CHOOSE i \in hits(a, b) : \A k \in hits(a, b) : k <= i
    IN  [weights |->
            [a \in 1..Len(mw) |->
                [b \in 1..Len(mw[a]) |->
                    IF hits(a - 1, b - 1) = {} THEN mw[a][b]
                    ELSE Reshape(params[last(a - 1, b - 1)],
                                 f.shapes[last(a - 1, b - 1)])]],
         latent_logits |->
            IF hits(-1, -1) = {} THEN latent_logits
            ELSE params[last(-1, -1)]]

\* How fit would end if an unknown fit method were let through.
LCFitOutcome_noraise ==
    IF Lower(lc_fit_method) = "em" THEN {"TypeError"}
    ELSE IF Lower(lc_fit_method) = "mle" THEN {"AttributeError"}
         ELSE {"none"}

\* The ways BaseLatentClassModel.fit can end, lines 927-940.  No branch looks
\* at self.instantiated.
\*   em:  line 930 passes sample_weight to _em_fit, which (line 1243) has no
\*        such parameter;
\*   mle: line 933 calls lower() on the optimizer, None by default; the L-BFGS
\*        branch reads self.models (line 1007) and then reaches the objective,
\*        whose call of evaluate (line 1074) comes to the call of lines
\*        965-971.  Lines 966 and 968 write a keyword argument with `==`,
\*        and as written the file is not accepted by the compiler.  What the
\*        call does depends on how the build reads the two lines: with line
\*        966 left as the comparison it is, its left-hand name is not bound
\*        (NameError); with both read as keyword arguments batch_predict is
\*        entered and reads self.normalize_non_buy (line 841), which the
\*        class never assigns (AttributeError).  Either can happen;
\*        the other branch calls _fit_normal, which the class does not define;
\*   any other method: line 940.
LCFitOutcome ==
    IF Lower(lc_fit_method) = "em" THEN {"TypeError"}
    ELSE IF Lower(lc_fit_method) = "mle"
         THEN IF lc_optimizer = "None" THEN {"AttributeError"}
              ELSE IF Lower(lc_optimizer) = "lbfgs" \/ Lower(lc_optimizer) = "l-bfgs"
                   THEN IF lc_models.set THEN {"NameError", "AttributeError"}
                        ELSE {"AttributeError"}
                   ELSE {"AttributeError"}
         ELSE {"ValueError"}

\* BaseLatentClassModel.fit, lines 927-940
\* fit reaches the mixture's _fit_with_lbfgs (line 934)
LCFitLbfgs ==
    /\ Lower(lc_fit_method) = "mle"
    /\ lc_optimizer # "None"
    /\ Lower(lc_optimizer) \in {"lbfgs", "l-bfgs"}
    /\ lc_models.set

LCFit ==
    /\ lc_init_error = "none"
    /\ Len(lc_log) < MaxCalls
    /\ lc_minf' = IF Lower(lc_fit_method) = "em" THEN "set" ELSE lc_minf
    /\ \E outcome \in LCFitOutcome :
          lc_log' = Append(lc_log, [op |-> "fit", error |-> outcome, result |-> <<>>])
    /\ em_pc = "idle"
    /\ IF LCFitLbfgs
       THEN LET f == MixLbfgsTrainStep(mix_weights, lc_latent_logits.value)
                init_params_1d == DynamicStitch(f.idx,
                                      MixInit(mix_weights, lc_latent_logits.value))
                a == MixAssignNewModelParameters(f, init_params_1d, mix_weights,
                                                 lc_latent_logits.value)
            IN  /\ mix_func' = f
                /\ mix_init_params' = init_params_1d
                /\ mix_weights' = a.weights
                /\ lc_latent_logits' = Attr(a.latent_logits)
       ELSE UNCHANGED <<mixVars, lc_latent_logits>>
    /\ UNCHANGED <<ioVars, modelVars, argVars, frameVars, obsVars, lbfgsVars, lcCtorVars, lc_models,
                   emVars>>

NextLC ==
    \/ LCInstantiate
    \/ LCFit
    \/ LCBatchPredict

SpecLC == InitLC /\ [][NextLC]_vars

(* ------------------------------ the EM fit ----------------------------- *)
\* self.model_class(**mp), line 1233: a sub-model on which instantiate has not
\* been called
NewModel(mp, model_class) == [params |-> mp, instantiated |-> model_class, fits |-> 0]

\* the sign of a gradient entry
Sign(g) == IF g > 0 THEN 1 ELSE IF g < 0 THEN -1 ELSE 0

\* train_step, line 178: optimizer.apply_gradients(zip(grads, self.weights))
\* with the sub-model's default optimizer (Adam, lr = 0.001, lines 22, 25 and
\* 67-68), whose step moves every entry by lr against the sign of its
\* gradient, in thousandths and to the thousandth.
ApplyGradients(ws, gs) ==
    [j \in 1..Len(ws) |->
        [shape |-> ws[j].shape,
         flat |-> [k \in 1..Len(ws[j].flat) |-> ws[j].flat[k] - Sign(gs[j].flat[k])]]]

\* The weights of a sub-model after ChoiceModel.fit with its defaults (one
\* epoch, lines 26-27, the dataset in one batch): one train_step.
FitWeights(ws) == ApplyGradients(ws, Gradient(ws))

\* ChoiceModel.fit called on a sub-model: the guard of lines 212-214, then the
\* fit, which is counted.
ModelFit(model) ==
    IF model.instantiated = "False"
    THEN [error |-> "ValueError", model |-> model]
    ELSE [error |-> "none", model |-> [model EXCEPT !.fits = @ + 1]]

\* Lines 1264-1266 from sub-model q on: every sub-model is fitted in turn.
RECURSIVE FitModels(_, _)
FitModels(models, q) ==
    IF q > Len(models)
    THEN [error |-> "none", models |-> models]
    ELSE LET r == ModelFit(models[q])
         IN  IF r.error # "none"
             THEN [error |-> r.error, models |-> models]
             ELSE FitModels([models EXCEPT ![q] = r.model], q + 1)

\* The probability sub-model c gives to the choice made in instance i (lines
\* 1199 and 1204-1207), a positive number that changes with every fit.
ChosenProba(model, c, i) == ((c + i + model.fits) % 3) + 1

\* Lines 1198-1216 without the division of line 1216.
Expectation_unnormalized(models, latent_logits, rows) ==
    LET k == Min(Len(latent_logits), Len(models))
        entry(i, c) == 10 * latent_logits[c] * ChosenProba(models[c], c, i) + 1
        total(i) == SumSeq([c \in 1..k |-> entry(i, c)])
    IN  IF k = 0
        THEN [error |-> "ValueError", weights |-> <<>>, loss |-> <<>>]
        ELSE [error |-> "none",
              weights |-> [i \in 1..rows |-> [c \in 1..k |-> <<entry(i, c), 1>>]],
              loss |-> [i \in 1..rows |-> total(i)]]

\* _expectation, lines 1198-1216.  zip pairs the entries of self.latent_logits
\* with the sub-models and stops at the shorter; np.stack of an empty list
\* raises ValueError.  An entry is latent * proba + 1e-10; the smoothing term
\* is one unit here and the products are multiples of ten units, so that a row
\* never sums to zero.  A responsibility is <<entry, row sum>>, and the loss is
\* kept as the row sums whose logarithms line 1214 adds.
Expectation(models, latent_logits, rows) ==
    LET k == Min(Len(latent_logits), Len(models))
        entry(i, c) == 10 * latent_logits[c] * ChosenProba(models[c], c, i) + 1
        total(i) == SumSeq([c \in 1..k |-> entry(i, c)])
    IN  IF k = 0
        THEN [error |-> "ValueError", weights |-> <<>>, loss |-> <<>>]
        ELSE [error |-> "none",
              weights |-> [i \in 1..rows |-> [c \in 1..k |-> <<entry(i, c), total(i)>>]],
              loss |-> [i \in 1..rows |-> total(i)]]

\* Lines 1235-1236 from class q on: self.models[q], then self.weights[:, q],
\* then the fit of the sub-model.
RECURSIVE MaximizationFits(_, _, _, _)
MaximizationFits(models, q, n, columns) ==
    IF q > n
    THEN [error |-> "none", models |-> models]
    ELSE IF q > Len(models) \/ q > columns
    THEN [error |-> "IndexError", models |-> models]
    ELSE LET r == ModelFit(models[q])
         IN  IF r.error # "none"
             THEN [error |-> r.error, models |-> models]
             ELSE MaximizationFits([models EXCEPT ![q] = r.model], q + 1, n, columns)

\* Lines 1239-1241: the column sums of self.weights divided by their total.
\* The rows are brought to the common denominator d first.
LatentProbas(resp) ==
    LET d == Product([i \in 1..Len(resp) |-> resp[i][1][2]])
        column(c) == SumSeq([i \in 1..Len(resp) |->
                                resp[i][c][1] * (d \div resp[i][c][2])])
        columns == [c \in 1..Len(resp[1]) |-> column(c)]
    IN  [c \in 1..Len(columns) |-> <<columns[c], SumSeq(columns)>>]

\* _maximization, lines 1218-1241: the sub-models are created anew, fitted
\* with the columns of self.weights, and the prior is returned.
Maximization(model_parameters, model_class, n, resp) ==
    LET new == [q \in 1..Len(model_parameters) |->
                   NewModel(model_parameters[q], model_class)]
        f == MaximizationFits(new, 1, n, Len(resp[1]))
    IN  IF f.error # "none"
        THEN [error |-> f.error, models |-> f.models, latent_probas |-> <<>>]
        ELSE [error |-> "none", models |-> f.models, latent_probas |-> LatentProbas(resp)]

\* np.isnan of a quotient: 0 / 0 is NaN; any other division by 0 is inf or -inf
IsNan(x) == x[1] = 0 /\ x[2] = 0

\* Lines 1269-1274, once the M-step has returned latent_probas: the prior is
\* stored, both histories grow by one entry, and a NaN in the stored prior
\* ends the loop.
EmIterationEnd(latent_probas, logits_hist, loss_hist, loss) ==
    [latent_logits |-> latent_probas,
     hist_logits |-> Append(logits_hist, latent_probas),
     hist_loss |-> Append(loss_hist, loss),
     break |-> \E c \in 1..Len(latent_probas) : IsNan(latent_probas[c])]

\* A call of _em_fit, lines 1260-1266: the histories are emptied and every
\* sub-model is fitted once with random weights.
EmFitCall ==
    /\ lc_init_error = "none"
    /\ em_pc = "idle"
    /\ Len(lc_log) < MaxCalls
    /\ hist_logits' = <<>>
    /\ hist_loss' = <<>>
    /\ em_i' = 0
    /\ em_loss' = <<>>
    /\ IF ~lc_models.set
       THEN /\ lc_log' = Append(lc_log, [op |-> "_em_fit", error |-> "AttributeError",
                                         result |-> <<>>])
            /\ UNCHANGED <<lc_models, em_pc, mix_weights>>
       ELSE LET r == FitModels(lc_models.value, 1)
            IN  /\ lc_models' = Attr(r.models)
                /\ mix_weights' =
                      [q \in 1..Len(mix_weights) |->
                          IF r.models[q].fits > lc_models.value[q].fits
                          THEN FitWeights(mix_weights[q])
                          ELSE mix_weights[q]]
                /\ IF r.error # "none"
                   THEN /\ lc_log' = Append(lc_log, [op |-> "_em_fit", error |-> r.error,
                                                     result |-> <<>>])
                        /\ UNCHANGED em_pc
                   ELSE /\ em_pc' = "loop"
                        /\ UNCHANGED lc_log
    /\ UNCHANGED <<ioVars, modelVars, argVars, frameVars, obsVars, lbfgsVars, mix_func,
                   mix_init_params, lcCtorVars,
                   lc_latent_logits, lc_minf, lc_dataset, lc_weights>>

\* Line 1268: the E-step of one more iteration of the loop of line 1267.
EmExpectation ==
    /\ em_pc = "loop"
    /\ em_i < lc_epochs
    /\ em_i' = em_i + 1
    /\ LET r == Expectation(lc_models.value, lc_latent_logits.value, lc_dataset)
       IN  IF r.error # "none"
           THEN /\ lc_log' = Append(lc_log, [op |-> "_em_fit", error |-> r.error,
                                             result |-> <<>>])
                /\ em_pc' = "idle"
                /\ UNCHANGED <<lc_weights, em_loss>>
           ELSE /\ lc_weights' = Attr(r.weights)
                /\ em_loss' = r.loss
                /\ em_pc' = "m_step"
                /\ UNCHANGED lc_log
    /\ UNCHANGED <<ioVars, modelVars, argVars, frameVars, obsVars, lbfgsVars, mixVars,
                   lcCtorVars, lc_models,
                   lc_latent_logits, lc_minf, lc_dataset, hist_logits, hist_loss>>

\* Lines 1269-1274: the M-step and the rest of the iteration.
EmMaximization ==
    /\ em_pc = "m_step"
    /\ LET m == Maximization(lc_model_parameters.value, lc_model_class,
                             lc_n_latent_classes, lc_weights.value)
       IN  /\ lc_models' = Attr(m.models)
           /\ IF m.error # "none"
              THEN /\ lc_log' = Append(lc_log, [op |-> "_em_fit", error |-> m.error,
                                                result |-> <<>>])
                   /\ em_pc' = "idle"
                   /\ UNCHANGED <<lc_latent_logits, hist_logits, hist_loss>>
              ELSE LET e == EmIterationEnd(m.latent_probas, hist_logits, hist_loss, em_loss)
                   IN  /\ lc_latent_logits' = Attr(e.latent_logits)
                       /\ hist_logits' = e.hist_logits
                       /\ hist_loss' = e.hist_loss
                       /\ em_pc' = IF e.break THEN "return" ELSE "loop"
                       /\ UNCHANGED lc_log
    /\ mix_weights' = [q \in 1..Len(lc_model_parameters.value) |-> <<>>]
          \* instantiate has not been called on the new sub-models
    /\ UNCHANGED <<ioVars, modelVars, argVars, frameVars, obsVars, lbfgsVars, mix_func,
                   mix_init_params, lcCtorVars, lc_minf, lc_dataset, lc_weights, em_i,
                   em_loss>>

\* Line 1275, after the last iteration or the break of line 1274.
EmReturn ==
    /\ \/ em_pc = "return"
       \/ em_pc = "loop" /\ em_i >= lc_epochs
    /\ lc_log' = Append(lc_log, [op |-> "_em_fit", error |-> "none",
                                 result |-> <<hist_logits, hist_loss>>])
    /\ em_pc' = "idle"
    /\ UNCHANGED <<ioVars, modelVars, argVars, frameVars, obsVars, lbfgsVars, mixVars,
                   lcCtorVars, lc_models,
                   lc_latent_logits, lc_minf, lc_dataset, lc_weights, em_i, em_loss,
                   hist_logits, hist_loss>>

\* A mixture built from one dictionary of hyper-parameters, with every number
\* of classes and of epochs, both kinds of sub-model class and every dataset
\* length; the ChoiceModel of the first part is idle.
InitEM ==
    /\ optimizer_name = "Adam"
    /\ optimizer = InitOptimizer(optimizer_name).optimizer
    /\ fit_impl = InitOptimizer(optimizer_name).fit
    /\ error = InitOptimizer(optimizer_name).error
    /\ instantiated = "True"
    /\ epochs = 0
    /\ batch_size = -1
    /\ choice_dataset = 1
    /\ val_dataset = None
    /\ sample_weight = None
    /\ self_weights = <<>>
    /\ InitRest
    /\ InitIo(NoDirectory)
    /\ \E n \in 1..MaxClasses, fit_method \in {"EM", "MLE"} :
          InitMixture(n, OneDict, fit_method, "None")
    /\ \E epochs_arg \in 0..MaxEpochs, model_class \in ModelClasses, rows \in 1..MaxRows :
          InitEm(epochs_arg, model_class, rows)

NextEM ==
    \/ LCInstantiate
    \/ LCFit
    \/ EmFitCall
    \/ EmExpectation
    \/ EmMaximization
    \/ EmReturn

SpecEM == InitEM /\ [][NextEM]_vars

(* ===================== save_model and load_model ======================= *)
\* The functions of the os module among those the two methods look up.
OsAttributes == {"listdir", "makedirs", "path"}

\* The attributes of tf.keras among those the two methods look up.
TfKerasAttributes == {"layers", "losses", "models", "optimizers"}

\* json.load(fp) reads fp.read(): a file object has it, a Path has not.
\* The content of params.json is one attribute ("lr") written by save_model.
JsonLoad(fp) ==
    IF fp.kind # "file"
    THEN [error |-> "AttributeError", value |-> <<>>]
    ELSE [error |-> "none", value |-> [k \in {"lr"} |-> "0.001"]]

\* The folders a caller can hand to load_model: none, or one listing any of
\* weight_0 .. weight_MaxTensors, with or without params.json.
Disks ==
    {NoDirectory} \cup
    {[exists |-> TRUE, weights |-> w, params |-> p] :
         w \in SUBSET (0..MaxTensors), p \in BOOLEAN}

\* the value of i when the loop of lines 476-479 ends: the first index whose
\* weight_i the folder does not list
RECURSIVE FirstMissing(_, _)
FirstMissing(listed, i) ==
    IF i \in listed THEN FirstMissing(listed, i + 1) ELSE i

\* save_model, lines 438-454: the folder afterwards and the exception raised.
SaveModelOutcome(d, ws) ==
    IF "exists" \notin OsAttributes
    THEN [error |-> "AttributeError", disk |-> d]
    ELSE LET made == [d EXCEPT !.exists = TRUE]
         IN  IF Len(ws) > 0 /\ "savedmodel" \notin TfKerasAttributes
             THEN [error |-> "AttributeError", disk |-> made]
             ELSE [error |-> "TypeError", disk |-> made]

\* line 487, `return cls`: the class, which has neither the loaded weights
\* nor the attributes that were set on obj
LoadModelReturn(obj) == [kind |-> "class", weights |-> <<>>, attrs |-> <<>>]

\* load_model, lines 472-487: the exception raised, or the value returned.
\* A loaded weight is written as the index of its artifact.
LoadModelOutcome(d) ==
    IF ~d.exists
    THEN [error |-> "FileNotFoundError", returned |-> <<>>]
    ELSE IF 0 \in d.weights /\ "load_model" \notin TfKerasAttributes
    THEN [error |-> "AttributeError", returned |-> <<>>]
    ELSE LET n == FirstMissing(d.weights, 0)
             loaded == [i \in 1..n |-> i - 1]
             params == JsonLoad([kind |-> "Path"])
         IN  IF params.error # "none"
             THEN [error |-> params.error, returned |-> <<>>]
             ELSE [error |-> "none",
                   returned |-> LoadModelReturn([weights |-> loaded, attrs |-> params.value])]

\* model.save_model(path) on the idle ChoiceModel
SaveModel ==
    /\ Len(io_log) < MaxCalls
    /\ LET r == SaveModelOutcome(disk, self_weights)
       IN  /\ disk' = r.disk
           /\ io_log' = Append(io_log, [op |-> "save_model", error |-> r.error,
                                        result |-> <<>>])
    /\ UNCHANGED <<modelVars, argVars, frameVars, obsVars, lbfgsVars, lcVars>>

\* ChoiceModel.load_model(path)
LoadModel ==
    /\ Len(io_log) < MaxCalls
    /\ LET r == LoadModelOutcome(disk)
       IN  io_log' = Append(io_log, [op |-> "load_model", error |-> r.error,
                                     result |-> r.returned])
    /\ UNCHANGED <<modelVars, argVars, frameVars, obsVars, lbfgsVars, lcVars, disk>>

\* An idle ChoiceModel holding any weights, beside any folder.
InitIO ==
    /\ optimizer_name = "Adam"
    /\ optimizer = InitOptimizer(optimizer_name).optimizer
    /\ fit_impl = InitOptimizer(optimizer_name).fit
    /\ error = InitOptimizer(optimizer_name).error
    /\ instantiated = "True"
    /\ epochs = 0
    /\ batch_size = -1
    /\ choice_dataset = 1
    /\ val_dataset = None
    /\ sample_weight = None
    /\ self_weights \in {<<>>} \cup InitialWeights
    /\ InitRest
    /\ InitMixture(1, OneDict, "MLE", "None")
    /\ InitEm(0, "absent", 1)
    /\ \E d \in Disks : InitIo(d)

NextIO ==
    \/ SaveModel
    \/ LoadModel

SpecIO == InitIO /\ [][NextIO]_vars

(* ===================== properties of ChoiceModel.fit =================== *)
\* the positions of the trace holding hook h
Pos(h) == {i \in 1..Len(trace) : trace[i].h = h}

\* the epoch (0-based) running when event i was received, -1 before the first
EpochOf(i) == Cardinality({j \in 1..i : trace[j].h = "on_epoch_begin"}) - 1

\* batches of one pass over the training dataset
NumBatches == Len(IterBatch(choice_dataset, batch_size))

RECURSIVE EpochsUpTo(_)
\* EpochOf for the first n events of the trace, as one sequence
EpochsUpTo(n) ==
    IF n = 0 THEN <<>>
    ELSE LET prev == EpochsUpTo(n - 1)
             last == IF n = 1 THEN -1 ELSE prev[n - 1]
         IN  Append(prev, IF trace[n].h = "on_epoch_begin" THEN last + 1 ELSE last)

Epochs == EpochsUpTo(Len(trace))

\* on_train_batch_end events received during epoch k
BatchEndsIn(k) == {j \in Pos("on_train_batch_end") : EpochOf(j) = k}

\* a gradient-loop call of fit has returned its history and no other call began
Returned ==
    /\ pc = "idle"
    /\ fits_done > 0
    /\ error = "none"
    /\ trace # <<>>

EpochLevel == {"on_epoch_begin", "on_epoch_end", "on_train_end"}
TrainBatchLevel == {"on_train_batch_begin", "on_train_batch_end"}
TestBatchLevel == {"on_batch_begin", "on_test_batch_begin", "on_test_batch_end"}

\* C1: the stop flag is read once per epoch, after on_epoch_end of that epoch
\* (so after its batches and validation pass); a read that finds it set ends
\* the epoch loop; every epoch that ended ran all its batches, whenever the
\* flag was set.
C1_StopReadOncePerEpoch ==
    /\ Len(stop_reads) + (IF pc = "check_stop" THEN 1 ELSE 0)
          = Cardinality(Pos("on_epoch_end"))
    /\ \A k \in 1..Len(stop_reads) :
          stop_reads[k] =>
             /\ k = Len(stop_reads)
             /\ Cardinality(Pos("on_epoch_begin")) = k
             /\ pc \in {"train_end", "idle"}
    /\ \A i \in Pos("on_epoch_end") :
          Cardinality(BatchEndsIn(trace[i].i)) = NumBatches
    /\ (stop_training /\ pc = "batch_loop" /\ inner_range # <<>>)
          => ENABLED TrainBatchBegin

\* C1 witness: the flag is set while a batch is trained and batches remain.
C1_Witness ==
    /\ pc = "apply"
    /\ stop_training
    /\ inner_range # <<>>
    /\ stop_reads = <<FALSE>>

\* C2: with epochs >= 1 the hooks are well nested.
C2_HooksWellNested ==
    (epochs >= 1 /\ trace # <<>>) =>
       LET ep == Epochs
           level == {m \in 1..Len(trace) : trace[m].h \in EpochLevel}
           epoch_ends == Pos("on_epoch_end")
       IN
       /\ Pos("on_train_begin") = {1}
       /\ Cardinality(Pos("on_train_end")) <= 1
       /\ \A i \in Pos("on_train_end") : i = Len(trace)
       /\ Returned => trace[Len(trace)].h = "on_train_end"
       \* the first epoch-level hook after on_epoch_begin(k) is on_epoch_end(k)
       /\ \A i \in Pos("on_epoch_begin") :
             /\ trace[i].i = ep[i]
             /\ LET after == {m \in level : m > i}
                IN  \A j \in after :
                       (\A m \in after : j <= m)
                       => (trace[j].h = "on_epoch_end" /\ trace[j].i = trace[i].i)
       \* the last epoch-level hook before on_epoch_end(k) is on_epoch_begin(k)
       /\ \A j \in epoch_ends :
             LET before == {m \in level : m < j}
             IN  \E i \in before :
                    /\ \A m \in before : m <= i
                    /\ trace[i].h = "on_epoch_begin"
                    /\ trace[i].i = trace[j].i
       /\ \A i \in Pos("on_train_end") : trace[i - 1].h = "on_epoch_end"
       \* batch hooks are numbered from 0 in each epoch and paired
       /\ \A i \in Pos("on_train_batch_begin") :
             /\ \/ trace[i - 1].h = "on_epoch_begin" /\ trace[i].i = 0
                \/ trace[i - 1].h = "on_train_batch_end" /\ trace[i].i = trace[i - 1].i + 1
             /\ i < Len(trace) =>
                   (trace[i + 1].h = "on_train_batch_end" /\ trace[i + 1].i = trace[i].i)
       /\ \A i \in Pos("on_train_batch_end") :
             trace[i - 1].h = "on_train_batch_begin" /\ trace[i - 1].i = trace[i].i
       \* batch hooks lie inside the epoch that is open
       /\ \A i \in 1..Len(trace) :
             trace[i].h \in TrainBatchLevel \cup TestBatchLevel =>
                /\ ep[i] >= 0
                /\ \A j \in epoch_ends : j < i => trace[j].i < ep[i]

\* C2 witness: a call stopped early after its first epoch has returned, and a
\* call that ran two epochs of two batches or more has returned.
C2_Witness ==
    /\ Returned
    /\ epochs >= 2
    /\ NumBatches >= 2
    /\ val_dataset # None
    /\ stop_reads = <<FALSE, TRUE>>

\* C3: one optimizer step per training batch, applied after the batch's
\* forward pass and gradient and before its on_train_batch_end; nothing else
\* in fit writes the parameters; a returned call made (epochs run) x (batches
\* per epoch) writes.
C3_OneStepPerBatch ==
    trace # <<>> =>
       /\ \A i \in 1..(Len(trace) - 1) :
             IF trace[i].h = "on_train_batch_begin"
             THEN trace[i + 1].w = trace[i].w + 1
             ELSE trace[i + 1].w = trace[i].w
       /\ IF pc = "batch_end"
          THEN weights = trace[Len(trace)].w + 1
          ELSE weights = trace[Len(trace)].w
       /\ pc = "apply" =>
             /\ neg_loglikelihood = BatchLoss(weights, available_items_batch)
             /\ grads = [w |-> weights, first |-> available_items_batch.first]
       /\ Returned =>
             weights - trace[1].w
                = Len(returned[Len(returned)]["train_loss"]) * NumBatches

\* C3 witness: a call with a validation dataset ran two epochs of two batches
\* or more and returned.
C3_Witness ==
    /\ Returned
    /\ Len(stop_reads) = 2
    /\ NumBatches >= 2
    /\ val_dataset # None
    /\ weights = 2 * NumBatches

\* the entry EpochLoss produces for epoch k (0-based) of a call that began
\* with parameters w0
ExpectedEpochLoss(w0, k) ==
    LET bt == IterBatch(choice_dataset, batch_size)
        losses == [b \in 1..Len(bt) |-> BatchLoss(w0 + k * Len(bt) + b - 1, bt[b])]
    IN  EpochLoss(losses, batch_size, bt[Len(bt)].rows, choice_dataset)

BatchPhase == {"batch_loop", "train_step", "gradient", "apply", "batch_end"}
ValPhase == {"val_loop", "val_predict"}

\* C4: the history of a call starts empty, holds one train_loss entry per
\* epoch whose batches are done, entry k being the loss of epoch k, and a
\* returned call holds one entry per executed epoch (k+1 after a stop in
\* epoch k).
C4_HistoryPerEpoch ==
    trace # <<>> =>
       LET tl == losses_history["train_loss"] IN
       /\ Len(tl) = Cardinality(Pos("on_epoch_begin"))
                       - (IF pc \in BatchPhase THEN 1 ELSE 0)
       /\ \A k \in 1..Len(tl) : tl[k] = ExpectedEpochLoss(trace[1].w, k - 1)
       /\ Returned =>
             /\ returned[Len(returned)] = losses_history
             /\ Len(tl) = Len(stop_reads)
             /\ stop_reads[Len(stop_reads)] => Len(tl) = epoch_nb + 1

\* C4 witness: a second call on the same model returned one entry although
\* the first call had returned two.
C4_Witness ==
    /\ Returned
    /\ Len(returned) = 2
    /\ Len(returned[1]["train_loss"]) = 2
    /\ Len(returned[2]["train_loss"]) = 1
    /\ stop_reads = <<TRUE>>

\* C5: with batch_size # -1 the epoch loss is the sum of the batch losses,
\* each weighted by the rows of its batch, over len(dataset); the weights are
\* batch_size for all batches but the last and sum to len(dataset).  With
\* batch_size = -1 it is the plain mean of the batch losses.
C5_EpochLossWeighted ==
    pc \in ValPhase \cup {"epoch_end", "check_stop"} =>
       LET tl == losses_history["train_loss"]
           bt == IterBatch(choice_dataset, batch_size)
           k == Len(epoch_losses)
           coef == Coefficients(k, batch_size, bt[k].rows)
       IN  /\ k = Len(bt)
           /\ batch_size # -1 =>
                 /\ \A b \in 1..k : coef[b] = bt[b].rows
                 /\ \A b \in 1..(k - 1) : coef[b] = batch_size
                 /\ SumSeq(coef) = choice_dataset
                 /\ tl[Len(tl)] = <<SumSeq([b \in 1..k |-> epoch_losses[b] * bt[b].rows]),
                                    choice_dataset>>
           /\ batch_size = -1 =>
                 tl[Len(tl)] = <<SumSeq(epoch_losses), Len(epoch_losses)>>

\* C5 witness: an epoch loss was computed with batch_size > len(dataset).
C5_Witness ==
    /\ pc = "epoch_end"
    /\ batch_size > choice_dataset
    /\ Len(losses_history["train_loss"]) = 2

\* C6: with a validation dataset, the validation batches of an epoch come
\* after all its training batches, the parameters are not written during the
\* validation pass, and the history gets one validation loss per epoch: the
\* two lists have equal length when fit returns.
C6_ValidationPass ==
    (val_dataset # None /\ trace # <<>>) =>
       LET tl == losses_history["train_loss"]
           vl == Get(losses_history, "test_loss", <<>>)
           ep == Epochs
           ends == Pos("on_train_batch_end")
       IN  /\ \A i \in 1..Len(trace) :
                 trace[i].h \in TestBatchLevel =>
                    /\ Cardinality({j \in ends : j < i /\ ep[j] = ep[i]}) = NumBatches
                    /\ \A j \in (i + 1)..Len(trace) :
                          trace[j].h \in TrainBatchLevel => ep[j] > ep[i]
                    /\ i < Len(trace) => trace[i + 1].w = trace[i].w
           /\ pc \in ValPhase => weights = trace[Len(trace)].w
           /\ Len(vl) = Len(tl) - (IF pc \in ValPhase THEN 1 ELSE 0)
           /\ Returned => (Len(vl) = Len(tl) /\ Len(vl) = Len(stop_reads))

\* C6 witness: a call with a validation dataset of two batches returned after
\* two epochs.
C6_Witness ==
    /\ Returned
    /\ val_dataset # None
    /\ Len(IterBatch(val_dataset[1], batch_size)) = 2
    /\ Len(losses_history["test_loss"]) = 2

KnownOptimizers == {"adam", "sgd", "adamax", "lbfgs", "l-bfgs"}

\* C7: a name that is none of adam, sgd, adamax, lbfgs, l-bfgs in any letter
\* case constructs without error, installs what "Adam" installs, and fit runs
\* the gradient loop to its end.
C7_UnknownOptimizerFallsBack ==
    Lower(optimizer_name) \notin KnownOptimizers =>
       /\ optimizer = InitOptimizer("Adam").optimizer
       /\ optimizer = "Adam"
       /\ fit_impl = "fit"
       /\ fits_done = 0 => error = "none"
       /\ error = "ValueError" => instantiated # "absent"
       /\ error = "UnboundLocalError" => epochs = 0
       /\ (pc = "idle" /\ fits_done > 0 /\ error = "none") =>
             /\ trace[Len(trace)].h = "on_train_end"
             /\ Len(returned) >= 1
             /\ Len(returned[Len(returned)]["train_loss"]) = Len(stop_reads)

\* C7 witness: a model built with an unknown name ran both epochs and returned.
C7_Witness ==
    /\ optimizer_name = "xyz_not_implemented"
    /\ Returned
    /\ stop_reads = <<FALSE, FALSE>>
    /\ weights = 2 * NumBatches

\* the flat indices given to tensor i (1-based here) of the closure f
IndexRange(f, i) == {f.idx[i].flat[k] : k \in 1..Len(f.idx[i].flat)}

\* the first flat index of tensor i: the number of elements before it
RECURSIVE Offset(_, _)
Offset(f, i) == IF i = 1 THEN 0 ELSE Offset(f, i - 1) + Product(f.shapes[i - 1])

\* C10: L-BFGS adapter round trip.  Once the closure is built, flattening the
\* parameters with its stitch indices and assigning the flat vector back
\* reproduces every tensor, element for element and shape for shape: for the
\* parameters the fit was called with, for the live parameters, and in the run
\* itself, where the first evaluation (at the initial position) leaves the
\* model as it was.  The flat index ranges of the tensors are contiguous (each
\* tensor gets Offset .. Offset + n - 1 in row-major order), pairwise disjoint
\* and together cover exactly 0 .. count - 1.
C10_LbfgsRoundTrip ==
    func.built =>
        /\ AssignNewModelParameters(func, DynamicStitch(func.idx, weights_at_call))
              = weights_at_call
        /\ AssignNewModelParameters(func, DynamicStitch(func.idx, self_weights))
              = self_weights
        /\ Len(init_params) = func.count
        /\ (pc = "lbfgs_minimize" /\ func.iter = 1) => self_weights = weights_at_call
        /\ \A i \in 1..func.n_tensors :
              /\ func.idx[i].shape = weights_at_call[i].shape
              /\ func.idx[i].flat =
                    Range(Offset(func, i), Offset(func, i) + Product(func.shapes[i]))
        /\ \A i, j \in 1..func.n_tensors :
              i # j => IndexRange(func, i) \cap IndexRange(func, j) = {}
        /\ UNION {IndexRange(func, i) : i \in 1..func.n_tensors} = 0..(func.count - 1)

\* a fit with L-BFGS has evaluated the objective on a model of two tensors, a
\* single-element one after a matrix of four elements
C10_Witness ==
    /\ func.built
    /\ func.iter >= 1
    /\ func.n_tensors = 2
    /\ func.shapes[1] = <<2, 2>>
    /\ Product(func.shapes[2]) = 1
    /\ self_weights = weights_at_call

(* ================== properties of the L-BFGS fit ====================== *)
\* a call of _fit_with_lbfgs has returned and no other call began
LbfgsReturned == pc = "idle" /\ results.set

\* C11: when _fit_with_lbfgs returns, converged or not, the parameters of the
\* model are results.position unflattened, whichever vector the last
\* evaluation of the objective had assigned: the position is assigned once
\* after the minimizer stops (one assignment per evaluation before that, one
\* more at the end), and the history of the evaluations is returned.
C11_FinalPositionAssigned ==
    /\ LbfgsReturned =>
          /\ self_weights = AssignNewModelParameters(func, results.position)
          /\ assigns = func.iter + 1
          /\ returned[Len(returned)] = func.history
    /\ pc = "lbfgs_minimize" => assigns = func.iter

\* C11 witness: the minimizer exhausted its budget and reported the vector
\* before the last one it evaluated.
C11_Witness ==
    /\ LbfgsReturned
    /\ ~results.converged
    /\ results.position # params_1d[Len(params_1d)]
    /\ self_weights # AssignNewModelParameters(func, params_1d[Len(params_1d)])


(* =================== properties of BaseLatentClassModel ================ *)
\* the fit calls made before any call of instantiate
FitsBeforeInstantiate ==
    {k \in 1..Len(lc_log) :
        /\ lc_log[k].op = "fit"
        /\ \A j \in 1..(k - 1) : lc_log[j].op # "instantiate"}

\* C8: calling fit on a mixture on which instantiate() was never called raises
\* a configuration error (the ValueError the code raises for configuration
\* mistakes), and no sub-model has been created or fitted by then.
C8_FitBeforeInstantiateRaises ==
    \A k \in FitsBeforeInstantiate :
        /\ lc_log[k].error = "ValueError"
        /\ (k = Len(lc_log)) => ~lc_models.set

\* C12: a list of hyper-parameter dicts whose length differs from
\* n_latent_classes makes the constructor raise ValueError; otherwise
\* self.model_parameters has n_latent_classes entries (the list itself, or the
\* one dict replicated), and instantiate() builds n_latent_classes sub-models,
\* the i-th from the i-th entry.
C12_ModelParametersPerClass ==
    LET arg == lc_model_parameters_arg
        n == lc_n_latent_classes
    IN  IF arg.is_list /\ Len(arg.items) # n
        THEN lc_init_error = "ValueError" /\ ~lc_models.set
        ELSE /\ lc_init_error = "none"
             /\ lc_model_parameters.set
             /\ Len(lc_model_parameters.value) = n
             /\ \A i \in 1..n :
                   lc_model_parameters.value[i]
                      = (IF arg.is_list THEN arg.items[i] ELSE arg.items[1])
             /\ lc_models.set =>
                   /\ Len(lc_models.value) = n
                   /\ \A i \in 1..n :
                         lc_models.value[i].params = lc_model_parameters.value[i]

\* C12 witness: a mixture of two classes built from a list of two dicts has
\* been instantiated.
C12_Witness ==
    /\ lc_n_latent_classes = 2
    /\ lc_model_parameters_arg.is_list
    /\ lc_models.set
    /\ lc_models.value[1].params = 1
    /\ lc_models.value[2].params = 2

\* the call that the step appends to the log of the mixture
NewCall == lc_log'[Len(lc_log')]
IsNewCall(op) == Len(lc_log') = Len(lc_log) + 1 /\ NewCall.op = op

\* C13: fit with a fit method that lower-cases to neither "em" nor "mle"
\* raises ValueError in the call, and the call changes neither the sub-models
\* (none is fitted) nor the class logits.
C13_UnknownFitMethodRaises ==
    [][(IsNewCall("fit") /\ Lower(lc_fit_method) \notin {"em", "mle"})
          => /\ NewCall.error = "ValueError"
             /\ lc_models' = lc_models
             /\ lc_latent_logits' = lc_latent_logits
             /\ lc_minf' = lc_minf]_vars

\* C13 witness: an instantiated mixture built with fit method "xyz" was fitted.
C13_Witness ==
    /\ lc_fit_method = "xyz"
    /\ Len(lc_log) = 2
    /\ lc_log[1].op = "instantiate"
    /\ lc_log[2].op = "fit"
    /\ lc_log[2].error = "ValueError"
    /\ lc_models.set


\* C15: a fit call with fit_method "MLE" on an instantiated mixture runs the
\* joint fit, through the L-BFGS adapter when the optimizer is named lbfgs or
\* l-bfgs and through the gradient loop otherwise, and completes without an
\* error.
C15_MleFitCompletes ==
    [][(IsNewCall("fit") /\ Lower(lc_fit_method) = "mle" /\ lc_models.set)
          => NewCall.error = "none"]_vars

\* The probabilities the mixture is meant to return: the term of class c is
\* the softmax of the utilities of class c alone, scaled by the prior of c.
ExpectedProbabilities(models, logits) ==
    [c \in 1..Len(models) |->
        [softmax_of |-> <<[class |-> c]>>, prior |-> LatentProbabilities(logits)[c]]]

\* C16: batch_predict on an instantiated mixture returns, for every class, the
\* softmax of that class's own utilities scaled by the prior of the class,
\* summed over the classes.
C16_MixturePrediction ==
    [][(IsNewCall("batch_predict") /\ lc_models.set /\ lc_latent_logits.set)
          => /\ NewCall.error = "none"
             /\ NewCall.result =
                    ExpectedProbabilities(lc_models.value, lc_latent_logits.value)]_vars


(* ----------------------- properties of the EM fit ---------------------- *)
\* C14: a fit call with fit_method "EM" on an instantiated mixture ends
\* without an error and returns the history of the priors and the history of
\* the losses, of the same length, at most self.epochs.
C14_EmFitTerminates ==
    [][(IsNewCall("fit") /\ Lower(lc_fit_method) = "em" /\ lc_models.set)
          => /\ NewCall.error = "none"
             /\ Len(NewCall.result) = 2
             /\ Len(NewCall.result[1]) = Len(NewCall.result[2])
             /\ Len(NewCall.result[1]) <= lc_epochs]_vars


\* C17: whenever the mixture has its logits (after instantiate and after every
\* fit call, by either method), it stores n - 1 of them, and the prior that
\* batch_predict derives from them has n entries, each strictly positive,
\* that sum to 1.
C17_PriorFromFreeLogits ==
    lc_latent_logits.set =>
        LET prior == LatentProbabilities(lc_latent_logits.value)
        IN  /\ Len(lc_latent_logits.value) = lc_n_latent_classes - 1
            /\ Len(prior) = lc_n_latent_classes
            /\ \A c \in 1..Len(prior) : prior[c][1] > 0 /\ prior[c][2] > 0
            /\ SumSeq([c \in 1..Len(prior) |-> prior[c][1]]) = prior[1][2]

\* three classes, after instantiate, a fit call and a call of _em_fit that
\* went as far as its M-step
C17_Witness ==
    /\ lc_latent_logits.set
    /\ lc_n_latent_classes = 3
    /\ lc_weights.set
    /\ em_pc = "idle"
    /\ \E k \in 1..Len(lc_log) : lc_log[k].op = "fit"
    /\ \E k \in 1..Len(lc_log) : lc_log[k].op = "_em_fit"


\* C18: the responsibilities an E-step returns have one row per instance of
\* the dataset, and the entries of every row sum to 1.
C18_ResponsibilitiesSumToOne ==
    lc_weights.set =>
        /\ Len(lc_weights.value) = lc_dataset
        /\ \A i \in 1..Len(lc_weights.value) :
              LET row == lc_weights.value[i]
              IN  /\ row # <<>>
                  /\ \A c \in 1..Len(row) : row[c][2] = row[1][2] /\ row[c][2] # 0
                  /\ SumSeq([c \in 1..Len(row) |-> row[c][1]]) = row[1][2]

\* an E-step has just returned a matrix with two columns and several rows
C18_Witness ==
    /\ em_pc = "m_step"
    /\ lc_weights.set
    /\ Len(lc_weights.value) >= 2
    /\ Len(lc_weights.value[1]) >= 2


\* C19: every M-step returns, and the prior the mixture stores after it has
\* one entry per latent class, is the column sums of the responsibilities of
\* the E-step of that iteration divided by their total, and sums to 1.
C19_PriorAfterMStep ==
    [][(em_pc = "m_step" /\ em_pc' # "m_step")
          => /\ em_pc' \in {"loop", "return"}
             /\ lc_latent_logits'.set
             /\ Len(lc_latent_logits'.value) = lc_n_latent_classes
             /\ lc_latent_logits'.value = LatentProbas(lc_weights.value)
             /\ SumSeq([c \in 1..lc_n_latent_classes |-> lc_latent_logits'.value[c][1]])
                    = lc_latent_logits'.value[1][2]]_vars


(* ------------------- further properties of ChoiceModel ----------------- *)
\* C27: every fit call starts from the idle state: when the call begins, the
\* stop flag is not set, whatever happened during the earlier calls on the
\* same model.
C27_FitStartsWithoutStopFlag ==
    [][(pc = "idle" /\ pc' = "epoch_loop") => ~stop_training]_vars

\* C28: a fit call with epochs = 0 ends without an error, having fired
\* on_train_begin and on_train_end once each and nothing else, with the
\* parameters untouched, and returns a history whose train_loss is empty.
C28_ZeroEpochsReturns ==
    (pc = "idle" /\ fits_done > 0 /\ epochs = 0 /\ trace # <<>>)
      => /\ error = "none"
         /\ trace = <<Ev("on_train_begin", 0), Ev("on_train_end", 0)>>
         /\ returned # <<>>
         /\ returned[Len(returned)] = ("train_loss" :> <<>>)


\* C22: every call of the objective assigns the flat vector it is given, then
\* evaluates the loss on the parameters just assigned, then computes the
\* gradient on the same parameters, and appends that one loss to the history:
\* the history has one entry per evaluation (f.iter), entry k is the loss at
\* the k-th vector handed to f, and during a fit the history only grows.
C22_ObjectiveHistory ==
    /\ [](func.built =>
            /\ Len(func.history) = func.iter
            /\ Len(params_1d) = func.iter
            /\ \A k \in 1..func.iter :
                  func.history[k] =
                      EvaluateOptim(AssignNewModelParameters(func, params_1d[k]))
            /\ func.iter >= 1 =>
                  /\ func.loss_value = func.history[func.iter]
                  /\ func.grads =
                        DynamicStitch(func.idx,
                            Gradient(AssignNewModelParameters(func, params_1d[func.iter])))
                  /\ Len(func.grads) = func.count)
    /\ [][pc = "lbfgs_minimize" =>
             /\ Len(func'.history) \in {Len(func.history), Len(func.history) + 1}
             /\ SubSeq(func'.history, 1, Len(func.history)) = func.history]_vars

\* the objective has been evaluated three times, on two tensors
C22_Witness ==
    /\ pc = "lbfgs_minimize"
    /\ func.built
    /\ func.iter = 3
    /\ func.n_tensors = 2
    /\ func.history[1] # func.history[2]


\* C29: with a validation dataset and batch_size other than -1, the validation
\* loss fit records for an epoch is the value of evaluate on the validation
\* dataset with the same batch size, in mode "optim", at the same parameters.
C29_ValidationLossIsEvaluate ==
    (pc = "epoch_end" /\ val_dataset # None /\ batch_size # -1
        /\ "test_loss" \in DOMAIN losses_history)
      => LET recorded == losses_history["test_loss"][Len(losses_history["test_loss"])]
             evaluated == Evaluate(val_dataset[1], None, batch_size, weights)
         IN  recorded[1] * evaluated[2] = evaluated[1] * recorded[2]

\* C30: with sample weights and batch_size other than -1, evaluate hands to
\* the loss of every batch the weights of the rows of that batch, as many as
\* the batch has rows, which for the batch being trained is what fit hands
\* to its train step.
C30_EvaluateBatchWeights ==
    (pc = "train_step" /\ sample_weight # None /\ batch_size # -1)
      => LET calls == EvaluateBatches(choice_dataset, sample_weight, batch_size)
         IN  \A i \in 1..Len(calls) :
                /\ Len(calls[i].sample_weight) = calls[i].batch.rows
                /\ calls[i].sample_weight =
                      SubSeq(sample_weight, calls[i].batch.first + 1,
                             calls[i].batch.first + calls[i].batch.rows)
                /\ calls[i].batch = available_items_batch
                      => calls[i].sample_weight = weight_batch


(* --------------- properties of the mixture's L-BFGS fit ---------------- *)
\* the tensor that block k of the flat vector stands for
MixTensor(k) ==
    IF mix_func.w_to_model[k] = -1 THEN LogitsTensor(lc_latent_logits.value)
    ELSE mix_weights[mix_func.w_to_model[k] + 1][mix_func.w_to_model_indexes[k] + 1]

\* C26: the flat vector of the mixture's L-BFGS fit has one block for every
\* weight of every sub-model, in (sub-model, weight) order, and a last block
\* for the class logits; the blocks are consecutive and cover the vector once;
\* the initial flat vector holds every tensor in its own block; unflattening
\* it leaves every weight and the logits as instantiate made them, and
\* unflattening any vector writes block k to the tensor block k stands for.
C26_MixtureFlatLayout ==
    mix_func.built =>
        LET f == mix_func
            blocks(a, b) == {k \in 1..f.n_tensors :
                                f.w_to_model[k] = a /\ f.w_to_model_indexes[k] = b}
            any == MixAssignNewModelParameters(f, Range(0, f.count), mix_weights,
                                               lc_latent_logits.value)
        IN  /\ f.n_tensors = SumSeq([a \in 1..Len(mix_weights) |-> Len(mix_weights[a])]) + 1
            /\ Len(mix_weights) = lc_n_latent_classes
            /\ \A a \in 1..Len(mix_weights) : \A b \in 1..Len(mix_weights[a]) :
                  Cardinality(blocks(a - 1, b - 1)) = 1
            /\ blocks(-1, -1) = {f.n_tensors}
            /\ \A k, l \in 1..(f.n_tensors - 1) :
                  k < l => \/ f.w_to_model[k] < f.w_to_model[l]
                           \/ /\ f.w_to_model[k] = f.w_to_model[l]
                              /\ f.w_to_model_indexes[k] < f.w_to_model_indexes[l]
            /\ \A k \in 1..f.n_tensors :
                  /\ f.shapes[k] = MixTensor(k).shape
                  /\ f.idx[k].flat =
                        Range(Offset(f, k), Offset(f, k) + Product(f.shapes[k]))
                  /\ \A q \in 1..Len(f.idx[k].flat) :
                        mix_init_params[f.idx[k].flat[q] + 1] = MixTensor(k).flat[q]
            /\ Len(mix_init_params) = f.count
            /\ UNION {IndexRange(f, k) : k \in 1..f.n_tensors} = 0..(f.count - 1)
            /\ mix_weights = [a \in 1..Len(mix_weights) |->
                                 ModelWeights(lc_model_parameters.value[a], a)]
            /\ lc_latent_logits.value = InitLogit(lc_n_latent_classes)
            /\ \A a \in 1..Len(mix_weights) : \A b \in 1..Len(mix_weights[a]) :
                  \A k \in blocks(a - 1, b - 1) :
                     any.weights[a][b] = Reshape(f.idx[k].flat, f.shapes[k])
            /\ any.latent_logits = f.idx[f.n_tensors].flat

\* three sub-models built from three different dictionaries, with weights of
\* different shapes, and two class logits
C26_Witness ==
    /\ mix_func.built
    /\ lc_n_latent_classes = 3
    /\ lc_model_parameters_arg.is_list
    /\ mix_func.n_tensors = 5
    /\ mix_func.count = 9


(* ------------------ further properties of the EM fit ------------------- *)
\* C23: the responsibilities of every E-step have one column per latent
\* class, every responsibility lies between 0 and 1, and within a row the
\* entries (less the smoothing term) are in the proportion of
\* prior[c] * P(choice | class c), the prior being the probabilities that
\* batch_predict derives from the logits.
C23_ResponsibilitiesFromPrior ==
    (em_pc = "m_step" /\ lc_weights.set) =>
        LET prior == LatentProbabilities(lc_latent_logits.value)
            p(c, i) == ChosenProba(lc_models.value[c], c, i)
        IN  \A i \in 1..Len(lc_weights.value) :
               LET row == lc_weights.value[i]
               IN  /\ Len(row) = lc_n_latent_classes
                   /\ \A c \in 1..Len(row) :
                         /\ row[c][1] * row[c][2] >= 0
                         /\ row[c][1] * row[c][1] <= row[c][2] * row[c][2]
                   /\ \A c, d \in 1..Len(row) :
                         (row[c][1] - 1) * prior[d][1] * p(d, i)
                            = (row[d][1] - 1) * prior[c][1] * p(c, i)

\* C24: every M-step completes, the responsibilities it uses have a column
\* for each of the n sub-models, and each of the n sub-models it leaves has
\* been fitted exactly once.
C24_MStepFitsEverySubModel ==
    [][(em_pc = "m_step" /\ em_pc' # "m_step")
          => /\ em_pc' \in {"loop", "return"}
             /\ Len(lc_weights.value[1]) = lc_n_latent_classes
             /\ Len(lc_models'.value) = lc_n_latent_classes
             /\ \A q \in 1..lc_n_latent_classes : lc_models'.value[q].fits = 1]_vars

\* C25: a call of _em_fit fits every sub-model once before the first E-step;
\* every E-step is computed from the sub-models and the prior the mixture
\* holds at that moment, every M-step from the responsibilities of the E-step
\* just before it, and every iteration that has begun ends with one more
\* prior and one more loss in the histories.
C25_EmIterationOrder ==
    [][/\ (em_pc = "idle" /\ em_pc' = "loop")
             => /\ hist_logits' = <<>> /\ hist_loss' = <<>>
                /\ \A q \in 1..Len(lc_models.value) :
                      lc_models'.value[q].fits = lc_models.value[q].fits + 1
       /\ (em_pc = "loop" /\ em_pc' = "m_step")
             => lc_weights'.value =
                   Expectation(lc_models.value, lc_latent_logits.value, lc_dataset).weights
       /\ (em_pc = "m_step" /\ em_pc' # "m_step")
             => /\ Len(hist_logits') = Len(hist_logits) + 1
                /\ Len(hist_loss') = Len(hist_loss) + 1
                /\ hist_logits'[Len(hist_logits')] = LatentProbas(lc_weights.value)]_vars


(* ---------------- properties of save_model / load_model ---------------- *)
\* C21: every call of load_model on a folder holding params.json returns an
\* instance of the class, not the class, whose weights list holds weight_0,
\* weight_1, ... in order up to the first missing index and whose attributes
\* are those of params.json.
C21_LoadModelReturnsInstance ==
    \A k \in 1..Len(io_log) :
       (io_log[k].op = "load_model" /\ disk.exists /\ disk.params)
          => /\ io_log[k].error = "none"
             /\ io_log[k].result # <<>>
             /\ io_log[k].result.kind = "instance"
             /\ Len(io_log[k].result.weights) = FirstMissing(disk.weights, 0)
             /\ \A i \in 1..Len(io_log[k].result.weights) :
                   io_log[k].result.weights[i] = i - 1
             /\ io_log[k].result.attrs = JsonLoad([kind |-> "file"]).value

====
